---- MODULE Spec2Model ----
(***************************************************************************)
(* Verification model of the file-matching and evaluation-aggregation      *)
(* engine of fern_nextjs_eval (matching.py, models.py,                     *)
(* universal_evaluator.py) and of fern_eval's safe_divide (utils.py) and   *)
(* UniversalParser (universal_parser.py).                                  *)
(*                                                                         *)
(* Real numbers in [0,1] are modelled exactly as integers in units of      *)
(* 1/ONE; ONE is chosen so that every product and quotient the modelled    *)
(* code computes on the inputs below is an integer.                        *)
(***************************************************************************)
EXTENDS Integers, Sequences, FiniteSets, TLC

VARIABLES
    pc,          \* position of the running operation
    golden,      \* match_files: golden_analyses, in dict (insertion) order
    generated,   \* match_files: generated_analyses, in dict order
    matches,     \* match_files: the accumulated matches dict
    used,        \* match_files: used_generated_files
    raised,      \* the exception the running operation raised, or "none"
    arg,         \* the argument(s) of the running call
    loc,         \* the local variables of the running call
    ret          \* the value the call returned

vars == <<pc, golden, generated, matches, used, raised, arg, loc, ret>>

\* 1.0 in model units (models.py: 0.0 <= confidence <= 1.0)
ONE == 600

\* bounds of the model
MaxGolden == 2
MaxGenerated == 2
MaxFiles == 3
MaxModels == 3
MaxMatches == 5
MaxPairs == 3
MaxLanguages == 4
MaxUnanalysed == 1
MaxExports == 3

None == <<>>
NoValue == [kind |-> "none"]

Min(S) == CHOOSE x \in S : \A y \in S : x <= y
Max(S) == CHOOSE x \in S : \A y \in S : x >= y
MinOf(a, b) == IF a <= b THEN a ELSE b
MaxOf(a, b) == IF a >= b THEN a ELSE b
Abs(x) == IF x < 0 THEN -x ELSE x
SeqToSet(s) == {s[i] : i \in 1..Len(s)}
EmptyMap == [x \in {} |-> NoValue]

(***************************************************************************)
(* models.py                                                               *)
(***************************************************************************)

IsException(r) == "exception" \in DOMAIN r

\* FileMatchResult.__init__ + __post_init__ without the range check
FileMatchResult_unchecked(golden_file, generated_file, confidence, match_strategy) ==
    [golden_file |-> golden_file, generated_file |-> generated_file,
     confidence |-> confidence, match_strategy |-> match_strategy]

\* FileMatchResult.__init__ + __post_init__: raises ValueError unless
\* 0.0 <= confidence <= 1.0
FileMatchResult(golden_file, generated_file, confidence, match_strategy) ==
    IF ~(0 <= confidence /\ confidence <= ONE)
    THEN [exception |-> "ValueError"]
    ELSE [golden_file |-> golden_file, generated_file |-> generated_file,
          confidence |-> confidence, match_strategy |-> match_strategy]

\* the nine score fields of EvaluationResult, in declaration order
ResultFields ==
    <<"overall_similarity", "functional_equivalence", "structural_similarity",
      "style_consistency", "complexity_delta", "performance_impact",
      "maintainability_score", "accessibility_score", "security_score">>

\* score_fields of EvaluationResult.__post_init__
ScoreFields ==
    <<"overall_similarity", "functional_equivalence", "structural_similarity",
      "style_consistency", "maintainability_score", "accessibility_score",
      "security_score">>

\* EvaluationResult.__init__ + __post_init__: raises ValueError when a field
\* of score_fields is not in [0.0, 1.0]; fields maps field names to numbers
EvaluationResult(fields) ==
    IF \E k \in 1..Len(ScoreFields) :
          ~(0 <= fields[ScoreFields[k]] /\ fields[ScoreFields[k]] <= ONE)
    THEN [exception |-> "ValueError"]
    ELSE fields

(***************************************************************************)
(* matching.py: FileAnalysis inputs                                        *)
(***************************************************************************)

\* FileAnalysis: name is file_path.name; strings compared by SequenceMatcher
\* are sequences of characters; complexity_score is in tenths.
Analysis(name, ftype, comp, exports, imports, deps, cx, sig) ==
    [name |-> name, file_type |-> ftype, component_name |-> comp,
     exports |-> exports, imports |-> imports, dependencies |-> deps,
     complexity_score |-> cx, functionality_signature |-> sig]

Catalogue ==
    { Analysis("Button.tsx", "react_component", <<"a","b">>, <<"Button">>,
               <<"react">>, {"react"}, 2, <<"a","b">>),
      Analysis("Card.tsx", "react_component", <<"a","b">>, <<"Button">>,
               <<"react">>, {"react"}, 2, <<"a","b">>),
      Analysis("Nav.tsx", "react_component", None, <<>>,
               <<>>, {}, 2, <<"a","b">>),
      Analysis("Tile.tsx", "react_component", None, <<>>,
               <<>>, {}, 2, <<"a","c">>),
      Analysis("Zed.tsx", "react_component", None, <<>>,
               <<>>, {}, 10, <<"c","d">>),
      Analysis("main.css", "style", None, <<>>,
               <<>>, {}, 2, <<"c","d">>) }

SeqsUpTo(S, n) == UNION {[1..k -> S] : k \in 0..n}

(***************************************************************************)
(* difflib.SequenceMatcher(None, a, b).ratio()                             *)
(***************************************************************************)

SubSeqSafe(s, lo, hi) == IF lo > hi THEN <<>> ELSE SubSeq(s, lo, hi)

\* blocks (i, j, k) with a[i..i+k-1] = b[j..j+k-1]
CommonBlocks(a, b) ==
    {blk \in (1..Len(a)) \X (1..Len(b)) \X (1..MinOf(Len(a), Len(b))) :
        /\ blk[1] + blk[3] - 1 <= Len(a)
        /\ blk[2] + blk[3] - 1 <= Len(b)
        /\ \A d \in 0..(blk[3] - 1) : a[blk[1] + d] = b[blk[2] + d]}

\* find_longest_match: longest block, earliest in a, then earliest in b
LongestMatch(a, b) ==
    LET bs == CommonBlocks(a, b)
        k  == Max({blk[3] : blk \in bs})
        i  == Min({blk[1] : blk \in {x \in bs : x[3] = k}})
        j  == Min({blk[2] : blk \in {x \in bs : x[3] = k /\ x[1] = i}})
    IN <<i, j, k>>

RECURSIVE MatchedSize(_, _)
\* get_matching_blocks: total size of the matching blocks
MatchedSize(a, b) ==
    IF CommonBlocks(a, b) = {} THEN 0
    ELSE LET m == LongestMatch(a, b)
         IN m[3]
            + MatchedSize(SubSeqSafe(a, 1, m[1] - 1), SubSeqSafe(b, 1, m[2] - 1))
            + MatchedSize(SubSeqSafe(a, m[1] + m[3], Len(a)),
                          SubSeqSafe(b, m[2] + m[3], Len(b)))

\* ratio() = 2.0 * matches / length, 1.0 when both are empty
Ratio(a, b) ==
    IF Len(a) + Len(b) = 0 THEN ONE
    ELSE (ONE * 2 * MatchedSize(a, b)) \div (Len(a) + Len(b))

(***************************************************************************)
(* matching.py: similarity scores                                          *)
(***************************************************************************)

Clamp01(x) == MinOf(ONE, MaxOf(0, x))

\* the export term with the number of golden exports as the divisor
ExportTerm_goldenCount(golden_exports, generated_exports) ==
    IF golden_exports # <<>> /\ generated_exports # <<>>
    THEN (ONE * 3 * Cardinality(SeqToSet(golden_exports) \cap SeqToSet(generated_exports)))
         \div (10 * Len(golden_exports))
    ELSE 0

\* the export term of _calculate_signature_similarity:
\*   len(set(golden.exports) & set(generated.exports))
\*     / max(len(golden.exports), len(generated.exports)) * 0.3
ExportTerm(golden_exports, generated_exports) ==
    IF golden_exports # <<>> /\ generated_exports # <<>>
    THEN (ONE * 3 * Cardinality(SeqToSet(golden_exports) \cap SeqToSet(generated_exports)))
         \div (10 * MaxOf(Len(golden_exports), Len(generated_exports)))
    ELSE 0

\* _calculate_signature_similarity
CalculateSignatureSimilarity(g, n) ==
    LET nameTerm ==
            IF g.component_name # None /\ n.component_name # None
            THEN (Ratio(g.component_name, n.component_name) * 3) \div 10
            ELSE 0
        exportTerm == ExportTerm(g.exports, n.exports)
        depTerm ==
            IF g.dependencies # {} /\ n.dependencies # {}
            THEN (ONE * 2 * Cardinality(g.dependencies \cap n.dependencies))
                 \div (10 * Cardinality(g.dependencies \cup n.dependencies))
            ELSE 0
        typeTerm == IF g.file_type = n.file_type THEN (ONE * 2) \div 10 ELSE 0
    IN MinOf(nameTerm + exportTerm + depTerm + typeTerm, ONE)

\* the similarity computed inside _match_by_functionality, before the clamp
FunctionalitySimilarity(g, n) ==
    LET similarity == Ratio(g.functionality_signature, n.functionality_signature)
    IN IF g.file_type = n.file_type THEN (similarity * 12) \div 10 ELSE similarity

\* _calculate_content_similarity
CalculateContentSimilarity(g, n) ==
    LET funcTerm == (Ratio(g.functionality_signature, n.functionality_signature) * 4)
                    \div 10
        cxTerm == ((ONE - (ONE * Abs(g.complexity_score - n.complexity_score)) \div 10)
                   * 2) \div 10
        importTerm ==
            IF g.imports # <<>> /\ n.imports # <<>>
            THEN (ONE * 2 * Cardinality(SeqToSet(g.imports) \cap SeqToSet(n.imports)))
                 \div (10 * Cardinality(SeqToSet(g.imports) \cup SeqToSet(n.imports)))
            ELSE 0
        typeTerm == IF g.file_type = n.file_type THEN (ONE * 2) \div 10 ELSE 0
    IN MinOf(funcTerm + cxTerm + importTerm + typeTerm, ONE)

(***************************************************************************)
(* matching.py: the five strategy passes.  A pass receives the golden and  *)
(* generated dicts and the shared `used` set, builds a LOCAL matches dict  *)
(* and returns it.  Files are identified by their position in dict order.  *)
(***************************************************************************)

Strategies ==
    <<"exact_name", "component_signature", "functionality",
      "content_similarity", "fallback">>

\* the acceptance thresholds of the three scoring passes (confidence > t)
Threshold(strategy) ==
    CASE strategy = "component_signature" -> (ONE * 7) \div 10
      [] strategy = "functionality"       -> (ONE * 6) \div 10
      [] strategy = "content_similarity"  -> (ONE * 5) \div 10

\* the candidate score each scoring pass computes before clamping
Score(strategy, g, n) ==
    CASE strategy = "component_signature" -> CalculateSignatureSimilarity(g, n)
      [] strategy = "functionality"       -> FunctionalitySimilarity(g, n)
      [] strategy = "content_similarity"  -> CalculateContentSimilarity(g, n)
      [] OTHER                            -> 0

\* confidence = min(1.0, max(0.0, confidence)) of every pair a scoring pass
\* may compare, as a table indexed by golden and generated position
Confidences(strategy, gold, gen) ==
    [g \in 1..Len(gold) |->
        [j \in 1..Len(gen) |-> Clamp01(Score(strategy, gold[g], gen[j]))]]

\* state of one pass: its local matches dict, the shared used set, the
\* fallback pass's available_generated dict, and a raised exception
PassState(usedIn, availableIn) ==
    [matches |-> EmptyMap, used |-> usedIn, available |-> availableIn,
     raised |-> "none"]

\* matches[golden_path] = FileMatchResult(...) inside a pass
Record(acc, g, r, usedOut, availableOut) ==
    IF IsException(r)
    THEN [acc EXCEPT !.raised = r.exception]
    ELSE [matches |-> (g :> r) @@ acc.matches, used |-> usedOut,
          available |-> availableOut, raised |-> "none"]

\* _match_by_exact_name, loop body without the `used` bookkeeping
ExactNameStep_reuse(gold, gen, g, acc) ==
    LET cands == {j \in 1..Len(gen) : gen[j].name = gold[g].name}
    IN IF cands = {} THEN acc
       ELSE Record(acc, g, FileMatchResult(g, Min(cands), ONE, "exact_name"),
                   acc.used, acc.available)

\* _match_by_exact_name, body of the loop over golden.items(): the first
\* generated file not in used with the same file name
ExactNameStep(gold, gen, g, acc) ==
    LET cands == {j \in 1..Len(gen) :
                    j \notin acc.used /\ gen[j].name = gold[g].name}
    IN IF cands = {} THEN acc
       ELSE Record(acc, g, FileMatchResult(g, Min(cands), ONE, "exact_name"),
                   acc.used \cup {Min(cands)}, acc.available)

RECURSIVE ScanCandidates_lastOnTies(_, _, _, _, _)
\* the inner loop of a scoring pass comparing with >= against the best so far
ScanCandidates_lastOnTies(strategy, row, usedSet, j, best) ==
    IF j > Len(row) THEN best
    ELSE IF j \in usedSet
         THEN ScanCandidates_lastOnTies(strategy, row, usedSet, j + 1, best)
         ELSE IF row[j] > Threshold(strategy) /\ row[j] >= best.confidence
              THEN ScanCandidates_lastOnTies(strategy, row, usedSet, j + 1,
                                             [match |-> j, confidence |-> row[j]])
              ELSE ScanCandidates_lastOnTies(strategy, row, usedSet, j + 1, best)

RECURSIVE ScanCandidates(_, _, _, _, _)
\* the inner loop over generated.items() of a scoring pass: keeps the first
\* candidate of strictly greatest clamped score above the threshold
\* (best.match = 0 stands for best_match = None); row[j] is the clamped
\* confidence of the golden file against generated file j
ScanCandidates(strategy, row, usedSet, j, best) ==
    IF j > Len(row) THEN best
    ELSE IF j \in usedSet
         THEN ScanCandidates(strategy, row, usedSet, j + 1, best)
         ELSE IF row[j] > Threshold(strategy) /\ row[j] > best.confidence
              THEN ScanCandidates(strategy, row, usedSet, j + 1,
                                  [match |-> j, confidence |-> row[j]])
              ELSE ScanCandidates(strategy, row, usedSet, j + 1, best)

\* _match_by_component_signature / _match_by_functionality /
\* _match_by_content_similarity, body of the loop over golden.items()
BestCandidateStep(strategy, conf, g, acc) ==
    IF g \in DOMAIN acc.matches THEN acc
    ELSE LET best == ScanCandidates(strategy, conf[g], acc.used, 1,
                                    [match |-> 0, confidence |-> 0])
         IN IF best.match = 0 THEN acc
            ELSE Record(acc, g,
                        FileMatchResult(g, best.match, Clamp01(best.confidence),
                                        strategy),
                        acc.used \cup {best.match}, acc.available)

\* _match_fallback, loop body that pairs only with a file of the same type
FallbackStep_typeonly(gold, gen, g, acc) ==
    LET type_matches == {j \in acc.available :
                            gen[j].file_type = gold[g].file_type}
    IN IF g \in DOMAIN acc.matches \/ type_matches = {} THEN acc
       ELSE Record(acc, g,
                   FileMatchResult(g, Min(type_matches), (ONE * 3) \div 10, "fallback"),
                   acc.used, acc.available \ {Min(type_matches)})

\* _match_fallback, loop body without the `not available_generated` guard:
\* next(iter({})) raises StopIteration
FallbackStep_unguarded(gold, gen, g, acc) ==
    LET type_matches == {j \in acc.available :
                            gen[j].file_type = gold[g].file_type}
    IN IF g \in DOMAIN acc.matches THEN acc
       ELSE IF acc.available = {} THEN [acc EXCEPT !.raised = "StopIteration"]
       ELSE LET best_path == IF type_matches # {} THEN Min(type_matches)
                             ELSE Min(acc.available)
                confidence == IF type_matches # {} THEN (ONE * 3) \div 10
                              ELSE (ONE * 1) \div 10
            IN Record(acc, g,
                      FileMatchResult(g, best_path, confidence, "fallback"),
                      acc.used, acc.available \ {best_path})

\* _match_fallback, body of the loop over golden.items(): the first
\* available file of the same type at 0.3, else the first available at 0.1
FallbackStep(gold, gen, g, acc) ==
    LET type_matches == {j \in acc.available :
                            gen[j].file_type = gold[g].file_type}
    IN IF g \in DOMAIN acc.matches \/ acc.available = {} THEN acc
       ELSE LET best_path == IF type_matches # {} THEN Min(type_matches)
                             ELSE Min(acc.available)
                confidence == IF type_matches # {} THEN (ONE * 3) \div 10
                              ELSE (ONE * 1) \div 10
            IN Record(acc, g,
                      FileMatchResult(g, best_path, confidence, "fallback"),
                      acc.used, acc.available \ {best_path})

PassStep(strategy, gold, gen, conf, g, acc) ==
    CASE strategy = "exact_name" -> ExactNameStep(gold, gen, g, acc)
      [] strategy = "fallback"   -> FallbackStep(gold, gen, g, acc)
      [] OTHER                   -> BestCandidateStep(strategy, conf, g, acc)

RECURSIVE PassLoop(_, _, _, _, _, _)
\* `for golden_path, golden_analysis in golden.items()` of a pass; an
\* exception leaves the loop
PassLoop(strategy, gold, gen, conf, g, acc) ==
    IF g > Len(gold) \/ acc.raised # "none" THEN acc
    ELSE PassLoop(strategy, gold, gen, conf, g + 1,
                  PassStep(strategy, gold, gen, conf, g, acc))

\* one strategy method, called as in match_files with the shared used set
RunPass(strategy, gold, gen, usedIn) ==
    PassLoop(strategy, gold, gen, Confidences(strategy, gold, gen), 1,
             PassState(usedIn, {j \in 1..Len(gen) : j \notin usedIn}))

\* dict.update: the entries of `new` replace those of `old`
DictUpdate(old, new) == new @@ old

(***************************************************************************)
(* match_files as a state machine: one action per strategy pass            *)
(***************************************************************************)

NextPc(strategy) ==
    CASE strategy = "exact_name"          -> "component_signature"
      [] strategy = "component_signature" -> "functionality"
      [] strategy = "functionality"       -> "content_similarity"
      [] strategy = "content_similarity"  -> "fallback"
      [] strategy = "fallback"            -> "done"

\* matches.update(self._match_...(golden, generated, used))
Pass(strategy) ==
    /\ pc = strategy
    /\ LET r == RunPass(strategy, golden, generated, used)
       IN IF r.raised # "none"
          THEN /\ raised' = r.raised
               /\ pc' = "raised"
               /\ UNCHANGED <<matches, used>>
          ELSE /\ matches' = DictUpdate(matches, r.matches)
               /\ used' = r.used
               /\ pc' = NextPc(strategy)
               /\ UNCHANGED raised
    /\ UNCHANGED <<golden, generated, arg, loc, ret>>

MatchExactName == Pass("exact_name")
MatchComponentSignature == Pass("component_signature")
MatchFunctionality == Pass("functionality")
MatchContentSimilarity == Pass("content_similarity")
MatchFallback == Pass("fallback")

\* confidences a caller may hand to the FileMatchResult constructor
ProbeConfidence ==
    {0 - ONE, 0 - 1, 0, 1, ONE \div 10, ONE - 1, ONE, ONE + 1, (ONE * 12) \div 10,
     2 * ONE}

\* FileMatchResult(golden_file, generated_file, confidence, strategy)
ConstructFileMatchResult ==
    /\ pc = "construct_match_result"
    /\ ret' = FileMatchResult(arg.golden_file, arg.generated_file,
                              arg.confidence, arg.match_strategy)
    /\ pc' = "constructed"
    /\ UNCHANGED <<golden, generated, matches, used, raised, arg, loc>>

\* files of a structure that _analyze_files could not analyse: they are in
\* all_files but have no FileAnalysis; numbered after the analysed files
Unanalysed(files, count) == {Len(files) + k : k \in 1..count}

\* _find_missing_files: all_golden_files - set(file_matches.keys())
FindMissingFiles(all_golden_files, file_matches) ==
    all_golden_files \ DOMAIN file_matches

\* _find_extra_files computed from the used set of match_files
FindExtraFiles_used(all_generated_files, file_matches) ==
    all_generated_files \ used

\* _find_extra_files: all_generated_files - set(match.generated_file ...)
FindExtraFiles(all_generated_files, file_matches) ==
    all_generated_files \
        {file_matches[g].generated_file : g \in DOMAIN file_matches}

\* _analyze_structure_differences after match_files has returned: the
\* missing_files and extra_files of the two structures
AnalyzeStructureDifferences ==
    /\ pc = "done"
    /\ \E dropped_golden \in 0..MaxUnanalysed, dropped_generated \in 0..MaxUnanalysed :
          LET all_golden_files ==
                  (1..Len(golden)) \cup Unanalysed(golden, dropped_golden)
              all_generated_files ==
                  (1..Len(generated)) \cup Unanalysed(generated, dropped_generated)
          IN ret' = [all_golden_files |-> all_golden_files,
                     all_generated_files |-> all_generated_files,
                     missing_files |-> FindMissingFiles(all_golden_files, matches),
                     extra_files |-> FindExtraFiles(all_generated_files, matches)]
    /\ pc' = "analyzed"
    /\ UNCHANGED <<golden, generated, matches, used, raised, arg, loc>>

InitMatch ==
    /\ matches = EmptyMap
    /\ used = {}
    /\ raised = "none"
    /\ ret = NoValue
    /\ loc = NoValue
    /\ \/ /\ pc = "exact_name"
          /\ golden \in SeqsUpTo(Catalogue, MaxGolden)
          /\ generated \in SeqsUpTo(Catalogue, MaxGenerated)
          /\ arg = NoValue
       \/ /\ pc = "construct_match_result"
          /\ golden = <<>>
          /\ generated = <<>>
          /\ arg \in [golden_file : {1}, generated_file : {1},
                      confidence : ProbeConfidence,
                      match_strategy : {Strategies[s] : s \in 1..Len(Strategies)}]

NextMatch ==
    \/ MatchExactName
    \/ MatchComponentSignature
    \/ MatchFunctionality
    \/ MatchContentSimilarity
    \/ MatchFallback
    \/ AnalyzeStructureDifferences
    \/ ConstructFileMatchResult

SpecMatch == InitMatch /\ [][NextMatch]_vars

(***************************************************************************)
(* Properties of match_files (SpecMatch)                                   *)
(***************************************************************************)

Goldens == 1..Len(golden)
Generateds == 1..Len(generated)
Matched == DOMAIN matches

\* generated files chosen by the fallback pass in the returned map
FallbackChosen ==
    {matches[g].generated_file :
        g \in {h \in Matched : matches[h].match_strategy = "fallback"}}

DistinctNames(files) ==
    \A a, b \in 1..Len(files) : a # b => files[a].name # files[b].name

\* C1: once a pass has matched a golden file, no later pass reconsiders it:
\* an entry of the matches map, once written, is the entry match_files returns.
C1_EarliestPassWins ==
    [][\A g \in Matched : g \in DOMAIN matches' /\ matches'[g] = matches[g]]_vars

\* C2 (as stated): if the generated set is non-empty, the returned map has a
\* match result for every golden file, each with confidence at least 0.1.
C2_EveryGoldenMatched ==
    (pc = "done" /\ generated # <<>>) =>
        /\ Matched = Goldens
        /\ \A g \in Matched : matches[g].confidence >= ONE \div 10

\* C2 (amended): if the generated set is non-empty, the returned map has at
\* most one result per golden file, each with confidence at least 0.1, and it
\* covers every golden file unless every generated file has been consumed by
\* some pass.
C2_CoveredUnlessExhausted ==
    (pc = "done" /\ generated # <<>>) =>
        /\ Matched \subseteq Goldens
        /\ \A g \in Matched : matches[g].confidence >= ONE \div 10
        /\ \/ Matched = Goldens
           \/ used \cup FallbackChosen = Generateds

C2_Witness ==
    /\ pc = "done"
    /\ Len(generated) = 1
    /\ Len(golden) = 2
    /\ Cardinality(Matched) = 1
    /\ used \cup FallbackChosen = Generateds

\* C3: no generated file is the generated_file of two different entries of
\* the matches map.
C3_GeneratedFileUsedOnce ==
    \A g1, g2 \in Matched :
        g1 # g2 => matches[g1].generated_file # matches[g2].generated_file

C3_Witness ==
    /\ pc = "done"
    /\ Cardinality(Matched) = 2
    /\ golden[1].name = golden[2].name
    /\ generated[1].name = golden[1].name

\* C4: when filenames are pairwise distinct within the golden set and within
\* the generated set, every golden file whose filename occurs in the
\* generated set is returned matched to that file by exact_name at 1.0.
C4_ExactNameReturned ==
    (pc = "done" /\ DistinctNames(golden) /\ DistinctNames(generated)) =>
        \A g \in Goldens : \A j \in Generateds :
            generated[j].name = golden[g].name =>
                /\ g \in Matched
                /\ matches[g] = FileMatchResult_unchecked(g, j, ONE, "exact_name")

\* the pool the fallback pass has left for golden file g: the files no earlier
\* pass consumed, minus those the fallback gave to an earlier unmatched golden
FallbackPool(g) ==
    {j \in Generateds : j \notin used} \
        {matches'[h].generated_file :
            h \in {x \in DOMAIN matches' : x \notin Matched /\ x < g}}

\* C5: the fallback pass pairs each golden file that the four earlier passes
\* left unmatched, while an unconsumed generated file remains, with the first
\* unconsumed file of its type at 0.3, else with a remaining one at 0.1, and
\* gives no generated file to two golden files.
C5_FallbackPairsUnmatched ==
    [][pc = "fallback" /\ pc' = "done" =>
        \A g \in Goldens \ Matched :
            LET pool == FallbackPool(g)
                sameType == {j \in pool :
                               generated[j].file_type = golden[g].file_type}
            IN pool # {} =>
                /\ g \in DOMAIN matches'
                /\ matches'[g].match_strategy = "fallback"
                /\ IF sameType # {}
                   THEN /\ matches'[g].generated_file = Min(sameType)
                        /\ matches'[g].confidence = (ONE * 3) \div 10
                   ELSE /\ matches'[g].generated_file \in pool
                        /\ matches'[g].confidence = ONE \div 10]_vars

\* C6: every FileMatchResult a pass produces has a confidence in [0,1], and
\* constructing a FileMatchResult with a confidence outside [0,1] fails.
C6_ConfidenceInUnitInterval ==
    /\ \A g \in Matched :
          /\ ~IsException(matches[g])
          /\ 0 <= matches[g].confidence /\ matches[g].confidence <= ONE
    /\ pc = "constructed" =>
          (IsException(ret) <=> (arg.confidence < 0 \/ arg.confidence > ONE))

C6_Witness ==
    /\ pc = "constructed"
    /\ arg.confidence = ONE + 1
    /\ IsException(ret)

\* C7: match_files returns an empty map, and raises nothing, whenever the
\* golden set or the generated set is empty.
C7_EmptyInputEmptyMap ==
    (pc \in {"done", "raised"} /\ (golden = <<>> \/ generated = <<>>)) =>
        /\ pc = "done"
        /\ raised = "none"
        /\ matches = EmptyMap

C7_Witness ==
    /\ pc = "done"
    /\ golden # <<>>
    /\ generated = <<>>
    /\ matches = EmptyMap

(***************************************************************************)
(* EvaluationResult construction (SpecResult)                              *)
(***************************************************************************)

\* values a caller may hand to a score field: below, on and above the bounds
ProbeScore == {0 - 1, 0, ONE, ONE + 1}

\* EvaluationResult(overall_similarity=..., ..., security_score=...)
ConstructEvaluationResult ==
    /\ pc = "construct_result"
    /\ ret' = EvaluationResult(arg)
    /\ pc' = "constructed_result"
    /\ UNCHANGED <<golden, generated, matches, used, raised, arg, loc>>

InitResult ==
    /\ pc = "construct_result"
    /\ golden = <<>>
    /\ generated = <<>>
    /\ matches = EmptyMap
    /\ used = {}
    /\ raised = "none"
    /\ loc = NoValue
    /\ ret = NoValue
    /\ arg \in [{ResultFields[k] : k \in 1..Len(ResultFields)} -> ProbeScore]

NextResult == ConstructEvaluationResult

SpecResult == InitResult /\ [][NextResult]_vars

OutOfRange(x) == x < 0 \/ x > ONE

\* the fields the specification calls bounded: all but complexity_delta
BoundedFields ==
    {ResultFields[k] : k \in 1..Len(ResultFields)} \ {"complexity_delta"}

\* C8: constructing an EvaluationResult fails with ValueError whenever one of
\* the eight bounded score fields is outside [0,1], and succeeds for any
\* complexity_delta when they are all in [0,1].
C8_BoundedFieldsValidated ==
    pc = "constructed_result" =>
        IF \E f \in BoundedFields : OutOfRange(arg[f])
        THEN ret = [exception |-> "ValueError"]
        ELSE ret = arg

(***************************************************************************)
(* utils.py safe_divide and universal_evaluator.py                         *)
(* _calculate_weighted_score (SpecWeighted)                                *)
(*                                                                         *)
(* A quotient is kept exact as a fraction [num, den] (den > 0) in units of *)
(* 1/ONE; weighted_sum is in units of 1/ONE^2, total_weight in 1/ONE.      *)
(***************************************************************************)

Zero == [num |-> 0, den |-> 1]

\* safe_divide(numerator, denominator, default)
SafeDivide(numerator, denominator, default) ==
    IF denominator = 0 THEN default
    ELSE [num |-> numerator, den |-> denominator]

\* loop body of _calculate_weighted_score that adds half the confidence to
\* total_weight
WeightedStep_halfWeight(acc, overall_similarity, match_confidence) ==
    [weighted_sum |-> acc.weighted_sum + overall_similarity * match_confidence,
     total_weight |-> acc.total_weight + match_confidence \div 2]

\* loop body of _calculate_weighted_score with every file weighted alike
WeightedStep_unweighted(acc, overall_similarity, match_confidence) ==
    [weighted_sum |-> acc.weighted_sum + overall_similarity * ONE,
     total_weight |-> acc.total_weight + ONE]

\* loop body of _calculate_weighted_score:
\*   weighted_sum += result.overall_similarity * match_confidence
\*   total_weight += match_confidence
WeightedStep(acc, overall_similarity, match_confidence) ==
    [weighted_sum |-> acc.weighted_sum + overall_similarity * match_confidence,
     total_weight |-> acc.total_weight + match_confidence]

\* per-file inputs: the file's overall_similarity and its match confidence
ProbeSimilarity == {0, (ONE * 2) \div 10, (ONE * 8) \div 10, ONE}
ProbeWeight == {0, (ONE * 3) \div 10, ONE}

\* _calculate_weighted_score: `if not file_results: return 0.0`, else enter
\* the loop with weighted_sum = total_weight = 0.0
WeightedBegin ==
    /\ pc = "weighted_score"
    /\ IF arg = <<>>
       THEN /\ ret' = Zero
            /\ pc' = "weighted_done"
            /\ UNCHANGED loc
       ELSE /\ loc' = [i |-> 1, weighted_sum |-> 0, total_weight |-> 0]
            /\ pc' = "weighted_loop"
            /\ UNCHANGED ret
    /\ UNCHANGED <<golden, generated, matches, used, raised, arg>>

\* one iteration of `for golden_file, result in file_results.items()`
WeightedIterate ==
    /\ pc = "weighted_loop"
    /\ loc.i <= Len(arg)
    /\ LET acc == WeightedStep(loc, arg[loc.i].overall_similarity,
                               arg[loc.i].confidence)
       IN loc' = [i |-> loc.i + 1, weighted_sum |-> acc.weighted_sum,
                  total_weight |-> acc.total_weight]
    /\ UNCHANGED <<pc, golden, generated, matches, used, raised, arg, ret>>

\* return safe_divide(weighted_sum, total_weight, 0.0)
WeightedReturn ==
    /\ pc = "weighted_loop"
    /\ loc.i > Len(arg)
    /\ ret' = SafeDivide(loc.weighted_sum, loc.total_weight, Zero)
    /\ pc' = "weighted_done"
    /\ UNCHANGED <<golden, generated, matches, used, raised, arg, loc>>

InitWeighted ==
    /\ pc = "weighted_score"
    /\ golden = <<>>
    /\ generated = <<>>
    /\ matches = EmptyMap
    /\ used = {}
    /\ raised = "none"
    /\ loc = NoValue
    /\ ret = NoValue
    /\ arg \in SeqsUpTo([overall_similarity : ProbeSimilarity,
                         confidence : ProbeWeight], MaxFiles)

NextWeighted ==
    \/ WeightedBegin
    \/ WeightedIterate
    \/ WeightedReturn

SpecWeighted == InitWeighted /\ [][NextWeighted]_vars

RECURSIVE SumOver(_, _, _)
\* the sum over the indices in idx of similarity * confidence (weighted) or
\* of confidence alone
SumOver(files, idx, weighted) ==
    IF idx = {} THEN 0
    ELSE LET i == CHOOSE x \in idx : TRUE
         IN (IF weighted THEN files[i].overall_similarity * files[i].confidence
             ELSE files[i].confidence)
            + SumOver(files, idx \ {i}, weighted)

Contributing(files) == {i \in 1..Len(files) : files[i].confidence # 0}

\* C9: the application overall score is sum(overall_similarity * confidence)
\* over the evaluated files divided by sum(confidence); it is 0.0 when no
\* file was evaluated or the confidences sum to zero; a zero-confidence file
\* contributes to neither sum (0.8 at 1.0 with 0.2 at 0.0 gives 0.8).
C9_ConfidenceWeightedMean ==
    pc = "weighted_done" =>
        LET all == 1..Len(arg)
            num == SumOver(arg, Contributing(arg), TRUE)
            den == SumOver(arg, Contributing(arg), FALSE)
        IN /\ (arg = <<>> \/ SumOver(arg, all, FALSE) = 0) => ret = Zero
           /\ SumOver(arg, all, FALSE) # 0 =>
                 /\ ret.den > 0
                 /\ ret.num * den = num * ret.den
           /\ arg = <<[overall_similarity |-> (ONE * 8) \div 10, confidence |-> ONE],
                      [overall_similarity |-> (ONE * 2) \div 10, confidence |-> 0]>>
                 => ret.num * 10 = ret.den * ONE * 8

C9_Witness ==
    /\ pc = "weighted_done"
    /\ Len(arg) = 3
    /\ arg[1].confidence = 0
    /\ arg[2].confidence = (ONE * 3) \div 10
    /\ arg[3].confidence = ONE
    /\ arg[2].overall_similarity # arg[3].overall_similarity

(***************************************************************************)
(* universal_evaluator.py: evaluate_batch (SpecBatch).  A dict is a        *)
(* sequence of <<key, value>> pairs in insertion order.                    *)
(***************************************************************************)

DictKeys(d) == {d[i][1] : i \in 1..Len(d)}
DictGet(d, k) == d[CHOOSE i \in 1..Len(d) : d[i][1] = k][2]

\* d[k] = v
DictSet(d, k, v) ==
    IF k \in DictKeys(d)
    THEN [i \in 1..Len(d) |-> IF d[i][1] = k THEN <<k, v>> ELSE d[i]]
    ELSE Append(d, <<k, v>>)

RECURSIVE ModelDict(_)
\* model_dict = {path: path for path in model_outputs}: the keys in order of
\* first occurrence
ModelDict(model_outputs) ==
    IF model_outputs = <<>> THEN <<>>
    ELSE LET front == ModelDict(SubSeq(model_outputs, 1, Len(model_outputs) - 1))
             last == model_outputs[Len(model_outputs)]
         IN IF last \in SeqToSet(front) THEN front ELSE Append(front, last)

\* an unstable descending sort: an item is placed before the items of its own
\* score
InsertDescending_unstable(sorted, item) ==
    LET k == Cardinality({i \in 1..Len(sorted) : sorted[i][2] > item[2]})
    IN SubSeqSafe(sorted, 1, k) \o <<item>> \o SubSeqSafe(sorted, k + 1, Len(sorted))

\* sorted(..., reverse=True) places an item after every item of a score
\* greater than or equal to its own (the sort is stable)
InsertDescending(sorted, item) ==
    LET k == Cardinality({i \in 1..Len(sorted) : sorted[i][2] >= item[2]})
    IN SubSeqSafe(sorted, 1, k) \o <<item>> \o SubSeqSafe(sorted, k + 1, Len(sorted))

RECURSIVE SortedByScoreDescending(_)
\* sorted(model_scores.items(), key=lambda x: x[1], reverse=True)
SortedByScoreDescending(items) ==
    IF items = <<>> THEN <<>>
    ELSE InsertDescending(
             SortedByScoreDescending(SubSeq(items, 1, Len(items) - 1)),
             items[Len(items)])

RECURSIVE SeqSum(_)
SeqSum(xs) == IF xs = <<>> THEN 0 ELSE Head(xs) + SeqSum(Tail(xs))

RECURSIVE SortedAscending(_)
SortedAscending(xs) ==
    IF xs = <<>> THEN <<>>
    ELSE LET rest == SortedAscending(Tail(xs))
             k == Cardinality({i \in 1..Len(rest) : rest[i] < Head(xs)})
         IN SubSeqSafe(rest, 1, k) \o <<Head(xs)>> \o SubSeqSafe(rest, k + 1, Len(rest))

\* _calculate_summary_statistics without the `if not scores` guard: min([])
\* raises ValueError
CalculateSummaryStatistics_unguarded(scores) ==
    IF scores = <<>>
    THEN [exception |-> "ValueError"]
    ELSE LET n == Len(scores)
             asc == SortedAscending(scores)
             squares == [i \in 1..n |-> scores[i] * scores[i]]
         IN [mean |-> [num |-> SeqSum(scores), den |-> n],
             median |-> IF n % 2 = 1
                        THEN [num |-> asc[(n + 1) \div 2], den |-> 1]
                        ELSE [num |-> asc[n \div 2] + asc[n \div 2 + 1], den |-> 2],
             variance |-> [num |-> n * SeqSum(squares) - SeqSum(scores) * SeqSum(scores),
                           den |-> n * n],
             min |-> asc[1],
             max |-> asc[n]]

\* _calculate_summary_statistics: np.mean, np.median, min and max of the
\* scores; np.std (divisor N) is kept as its square, the variance
\*   (N * sum(x^2) - sum(x)^2) / N^2
CalculateSummaryStatistics(scores) ==
    IF scores = <<>>
    THEN [mean |-> Zero, median |-> Zero, variance |-> Zero, min |-> 0, max |-> 0]
    ELSE LET n == Len(scores)
             asc == SortedAscending(scores)
             squares == [i \in 1..n |-> scores[i] * scores[i]]
         IN [mean |-> [num |-> SeqSum(scores), den |-> n],
             median |-> IF n % 2 = 1
                        THEN [num |-> asc[(n + 1) \div 2], den |-> 1]
                        ELSE [num |-> asc[n \div 2] + asc[n \div 2 + 1], den |-> 2],
             variance |-> [num |-> n * SeqSum(squares) - SeqSum(scores) * SeqSum(scores),
                           den |-> n * n],
             min |-> asc[1],
             max |-> asc[n]]

\* the EvaluationResult that BatchEvaluationResult.__init__ builds from a
\* model's score
ScoreResult(score) ==
    EvaluationResult(
        [f \in SeqToSet(ResultFields) |->
            IF f \in {"overall_similarity", "functional_equivalence",
                      "structural_similarity"}
            THEN score ELSE 0])

\* _create_batch_result that takes best and worst from the ends of the input
\* instead of the ends of the rankings
CreateBatchResult_inputEnds(model_scores) ==
    LET rankings == SortedByScoreDescending(model_scores)
        scores == [i \in 1..Len(model_scores) |-> model_scores[i][2]]
    IN IF \E i \in 1..Len(model_scores) : IsException(ScoreResult(model_scores[i][2]))
       THEN [exception |-> "ValueError"]
       ELSE [model_results |->
                [i \in 1..Len(model_scores) |->
                    <<model_scores[i][1], ScoreResult(model_scores[i][2])>>],
             rankings |-> rankings,
             summary_statistics |-> CalculateSummaryStatistics(scores),
             best_model |-> IF model_scores # <<>> THEN model_scores[1][1] ELSE None,
             worst_model |-> IF model_scores # <<>>
                             THEN model_scores[Len(model_scores)][1]
                             ELSE None]

\* _create_batch_result with BatchEvaluationResult.__init__: rankings,
\* statistics, best and worst model, and model_results built from the scores;
\* the constructor raises when a score is rejected by EvaluationResult
CreateBatchResult(model_scores) ==
    LET rankings == SortedByScoreDescending(model_scores)
        scores == [i \in 1..Len(model_scores) |-> model_scores[i][2]]
    IN IF \E i \in 1..Len(model_scores) : IsException(ScoreResult(model_scores[i][2]))
       THEN [exception |-> "ValueError"]
       ELSE [model_results |->
                [i \in 1..Len(model_scores) |->
                    <<model_scores[i][1], ScoreResult(model_scores[i][2])>>],
             rankings |-> rankings,
             summary_statistics |-> CalculateSummaryStatistics(scores),
             best_model |-> IF rankings # <<>> THEN rankings[1][1] ELSE None,
             worst_model |-> IF rankings # <<>> THEN rankings[Len(rankings)][1]
                             ELSE None]

\* BatchEvaluationResult.model_scores (property): name -> overall_similarity
ModelScores(batch) ==
    [i \in 1..Len(batch.model_results) |->
        <<batch.model_results[i][1], batch.model_results[i][2].overall_similarity>>]

\* _extract_overall_score of an EvaluationResult
ExtractOverallScore(result) == result.overall_similarity

\* loop body of _evaluate_all_models that scores a failed model 0.0
BatchStep_zeroed(results, model_name, outcome) ==
    IF outcome.kind = "raise" THEN DictSet(results, model_name, 0)
    ELSE DictSet(results, model_name, ExtractOverallScore(outcome.result))

\* loop body of _evaluate_all_models: on an exception of evaluate() the model
\* is logged and skipped (continue), otherwise its score is stored
BatchStep(results, model_name, outcome) ==
    IF outcome.kind = "raise" THEN results
    ELSE DictSet(results, model_name, ExtractOverallScore(outcome.result))

ModelName(i) == <<"model", i>>

\* overall scores evaluate() may return for a model
ProbeModelScore == {0, (ONE * 75) \div 100, (ONE * 85) \div 100, (ONE * 9) \div 10}

\* evaluate_batch: `if not model_outputs: return self._create_batch_result({})`,
\* else _evaluate_all_models starts with results = {}
BatchBegin ==
    /\ pc = "evaluate_batch"
    /\ IF arg = <<>>
       THEN /\ ret' = CreateBatchResult(<<>>)
            /\ pc' = "batch_done"
            /\ UNCHANGED loc
       ELSE /\ loc' = [model_dict |-> ModelDict(arg), i |-> 1, results |-> <<>>,
                       calls |-> <<>>]
            /\ pc' = "batch_loop"
            /\ UNCHANGED ret
    /\ UNCHANGED <<golden, generated, matches, used, raised, arg>>

\* one iteration of `for model_name, output_path in model_dict.items()` with
\* the outcome of self.evaluate(...); loc.calls records the calls made
BatchIterate(outcome) ==
    /\ pc = "batch_loop"
    /\ loc.i <= Len(loc.model_dict)
    /\ loc' = [loc EXCEPT
                 !.i = @ + 1,
                 !.results = BatchStep(@, loc.model_dict[loc.i], outcome),
                 !.calls = Append(@, <<loc.model_dict[loc.i], outcome>>)]
    /\ UNCHANGED <<pc, golden, generated, matches, used, raised, arg, ret>>

\* self.evaluate(golden_path, output_path, evaluation_type) returns a result
EvaluateReturns ==
    \E score \in ProbeModelScore :
        BatchIterate([kind |-> "result", result |-> ScoreResult(score)])

\* self.evaluate(golden_path, output_path, evaluation_type) raises
EvaluateRaises == BatchIterate([kind |-> "raise"])

\* return self._create_batch_result(model_scores)
BatchReturn ==
    /\ pc = "batch_loop"
    /\ loc.i > Len(loc.model_dict)
    /\ LET r == CreateBatchResult(loc.results)
       IN IF IsException(r)
          THEN /\ raised' = r.exception
               /\ pc' = "raised"
               /\ UNCHANGED ret
          ELSE /\ ret' = r
               /\ pc' = "batch_done"
               /\ UNCHANGED raised
    /\ UNCHANGED <<golden, generated, matches, used, arg, loc>>

InitBatch ==
    /\ pc = "evaluate_batch"
    /\ golden = <<>>
    /\ generated = <<>>
    /\ matches = EmptyMap
    /\ used = {}
    /\ raised = "none"
    /\ loc = NoValue
    /\ ret = NoValue
    /\ arg \in SeqsUpTo({ModelName(i) : i \in 1..MaxModels}, MaxModels)

NextBatch ==
    \/ BatchBegin
    \/ EvaluateReturns
    \/ EvaluateRaises
    \/ BatchReturn

SpecBatch == InitBatch /\ [][NextBatch]_vars

\* the calls of evaluate() that returned, and those that raised
Returned == {i \in 1..Len(loc.calls) : loc.calls[i][2].kind = "result"}
Raised == {i \in 1..Len(loc.calls) : loc.calls[i][2].kind = "raise"}

\* C10: a model whose evaluation raises is excluded from model_scores and
\* rankings rather than scored 0.0, the models after it are still evaluated,
\* and model_scores holds exactly the models whose evaluation returned a
\* result, each with the score of that result.
C10_FailedModelsExcluded ==
    (pc = "batch_done" /\ arg # <<>>) =>
        LET scores == ModelScores(ret)
        IN /\ {loc.calls[i][1] : i \in 1..Len(loc.calls)} = SeqToSet(arg)
           /\ DictKeys(scores) = {loc.calls[i][1] : i \in Returned}
           /\ DictKeys(ret.rankings) = DictKeys(scores)
           /\ Len(scores) = Cardinality(Returned)
           /\ Len(ret.rankings) = Cardinality(Returned)
           /\ \A i \in Returned :
                 DictGet(scores, loc.calls[i][1])
                    = loc.calls[i][2].result.overall_similarity
           /\ \A i \in Raised : loc.calls[i][1] \notin DictKeys(scores)

C10_Witness ==
    /\ pc = "batch_done"
    /\ arg # <<>>
    /\ Len(loc.calls) = 3
    /\ loc.calls[1][2].kind = "result"
    /\ loc.calls[2][2].kind = "raise"
    /\ loc.calls[3][2].kind = "result"
    /\ Len(ModelScores(ret)) = 2

\* position of a model among the calls of evaluate(), i.e. input iteration order
CallIndex(model_name) ==
    CHOOSE i \in 1..Len(loc.calls) : loc.calls[i][1] = model_name

\* C11: the rankings of a batch result list every successfully evaluated
\* model exactly once with its score, in non-increasing order of score, and
\* models of equal score appear in the order in which they were evaluated.
C11_RankingsStableDescending ==
    (pc = "batch_done" /\ arg # <<>>) =>
        LET r == ret.rankings
        IN /\ Len(r) = Cardinality(Returned)
           /\ {r[k][1] : k \in 1..Len(r)} = {loc.calls[i][1] : i \in Returned}
           /\ \A k \in 1..Len(r) :
                 r[k][2] = loc.calls[CallIndex(r[k][1])][2].result.overall_similarity
           /\ \A k \in 1..Len(r), m \in 1..Len(r) :
                 k < m => /\ r[k][2] >= r[m][2]
                          /\ r[k][2] = r[m][2] =>
                                CallIndex(r[k][1]) < CallIndex(r[m][1])

\* scores {a: 0.9, b: 0.75, c: 0.9}: a and c rank above b, a before c
C11_Witness ==
    /\ pc = "batch_done"
    /\ arg = <<ModelName(1), ModelName(2), ModelName(3)>>
    /\ ModelScores(ret) = << <<ModelName(1), (ONE * 9) \div 10>>,
                             <<ModelName(2), (ONE * 75) \div 100>>,
                             <<ModelName(3), (ONE * 9) \div 10>> >>
    /\ ret.rankings = << <<ModelName(1), (ONE * 9) \div 10>>,
                         <<ModelName(3), (ONE * 9) \div 10>>,
                         <<ModelName(2), (ONE * 75) \div 100>> >>

\* C12: in a batch result with at least one scored model, best_model is the
\* first entry of rankings and has the maximum score, worst_model is the last
\* entry of rankings and has the minimum score.
C12_BestAndWorstAreRankingEnds ==
    (pc = "batch_done" /\ ModelScores(ret) # <<>>) =>
        LET scores == ModelScores(ret)
            r == ret.rankings
            values == {scores[i][2] : i \in 1..Len(scores)}
        IN /\ r # <<>>
           /\ ret.best_model = r[1][1]
           /\ ret.worst_model = r[Len(r)][1]
           /\ DictGet(scores, ret.best_model) = Max(values)
           /\ DictGet(scores, ret.worst_model) = Min(values)

\* m1, m2, m3 scoring 0.85, 0.75, 0.90: best m3, worst m2
C12_Witness ==
    /\ pc = "batch_done"
    /\ ModelScores(ret) = << <<ModelName(1), (ONE * 85) \div 100>>,
                             <<ModelName(2), (ONE * 75) \div 100>>,
                             <<ModelName(3), (ONE * 9) \div 10>> >>
    /\ ret.best_model = ModelName(3)
    /\ ret.worst_model = ModelName(2)

\* the result of a batch in which no model was scored
EmptyBatchResult(batch) ==
    /\ ModelScores(batch) = <<>>
    /\ batch.rankings = <<>>
    /\ batch.best_model = None
    /\ batch.worst_model = None
    /\ batch.summary_statistics =
         [mean |-> Zero, median |-> Zero, variance |-> Zero, min |-> 0, max |-> 0]

\* C13: evaluate_batch with empty model_outputs, or with model_outputs whose
\* every evaluation fails, does not raise and returns a result with empty
\* model_scores, empty rankings, best_model and worst_model None and every
\* summary statistic 0.0.
C13_NothingScoredGivesEmptyResult ==
    /\ (pc \in {"batch_done", "raised"} /\ arg = <<>>) =>
           (pc = "batch_done" /\ EmptyBatchResult(ret))
    /\ (pc \in {"batch_done", "raised"} /\ arg # <<>> /\ Returned = {}) =>
           (pc = "batch_done" /\ EmptyBatchResult(ret))

\* two models, both evaluations raise
C13_Witness ==
    /\ pc = "batch_done"
    /\ arg # <<>>
    /\ Len(loc.calls) = 2
    /\ Returned = {}
    /\ EmptyBatchResult(ret)

(***************************************************************************)
(* matching.py: AdaptiveEvaluationStrategy (SpecStrategy).  The match map  *)
(* is a dict golden_file -> FileMatchResult.                               *)
(***************************************************************************)

GoldenFile(i) == <<"golden", i>>
GeneratedFile(i) == <<"generated", i>>

\* match confidences: 0.29, 0.3, 0.49, 0.5, 0.8
ProbeMatchConfidence ==
    {(ONE * 29) \div 100, (ONE * 3) \div 10, (ONE * 49) \div 100, (ONE * 5) \div 10,
     (ONE * 8) \div 10}

\* the match maps of k entries with confidences from a set
MatchMapsOf(k, confidences) ==
    {[i \in 1..k |->
        <<GoldenFile(i),
          FileMatchResult(GoldenFile(i), GeneratedFile(i), c[i], "functionality")>>] :
     c \in [1..k -> confidences]}

\* tier of create_evaluation_plan whose last branch evaluates structurally
\* instead of skipping
PlanTier_noSkip(confidence) ==
    IF confidence >= (ONE * 8) \div 10 THEN "direct"
    ELSE IF confidence >= (ONE * 5) \div 10 THEN "semantic"
    ELSE "structural"

\* tier of create_evaluation_plan with `>` in place of `>=`
PlanTier_strict(confidence) ==
    IF confidence * 10 > ONE * 8 THEN "direct"
    ELSE IF confidence * 10 > ONE * 5 THEN "semantic"
    ELSE IF confidence * 10 > ONE * 3 THEN "structural"
    ELSE "skip"

\* the if/elif chain of create_evaluation_plan
PlanTier(confidence) ==
    IF confidence * 10 >= ONE * 8 THEN "direct"
    ELSE IF confidence * 10 >= ONE * 5 THEN "semantic"
    ELSE IF confidence * 10 >= ONE * 3 THEN "structural"
    ELSE "skip"

RECURSIVE PlanLoop(_, _, _)
\* for golden_file, match_result in matches.items(): plan[golden_file] = ...
PlanLoop(file_matches, i, plan) ==
    IF i > Len(file_matches) THEN plan
    ELSE PlanLoop(file_matches, i + 1,
                  DictSet(plan, file_matches[i][1],
                          PlanTier(file_matches[i][2].confidence)))

\* AdaptiveEvaluationStrategy.create_evaluation_plan
CreateEvaluationPlan(file_matches) == PlanLoop(file_matches, 1, <<>>)

\* should_evaluate_as_application with `match_ratio > 0.6`
ShouldEvaluateAsApplication_strict(file_matches) ==
    IF file_matches = <<>> THEN FALSE
    ELSE LET high_confidence_matches ==
                 Cardinality({i \in 1..Len(file_matches) :
                                 file_matches[i][2].confidence * 10 >= ONE * 5})
         IN high_confidence_matches * 10 > 6 * Len(file_matches)

\* AdaptiveEvaluationStrategy.should_evaluate_as_application:
\* match_ratio = high_confidence_matches / len(matches); match_ratio >= 0.6
ShouldEvaluateAsApplication(file_matches) ==
    IF file_matches = <<>> THEN FALSE
    ELSE LET high_confidence_matches ==
                 Cardinality({i \in 1..Len(file_matches) :
                                 file_matches[i][2].confidence * 10 >= ONE * 5})
         IN high_confidence_matches * 10 >= 6 * Len(file_matches)

\* a call of create_evaluation_plan(matches)
CallCreateEvaluationPlan ==
    /\ pc = "strategy"
    /\ ret' = [plan |-> CreateEvaluationPlan(arg)]
    /\ pc' = "plan_done"
    /\ UNCHANGED <<golden, generated, matches, used, raised, arg, loc>>

\* a call of should_evaluate_as_application(matches)
CallShouldEvaluateAsApplication ==
    /\ pc = "strategy"
    /\ ret' = [as_application |-> ShouldEvaluateAsApplication(arg)]
    /\ pc' = "should_done"
    /\ UNCHANGED <<golden, generated, matches, used, raised, arg, loc>>

InitStrategy ==
    /\ pc = "strategy"
    /\ golden = <<>>
    /\ generated = <<>>
    /\ matches = EmptyMap
    /\ used = {}
    /\ raised = "none"
    /\ loc = NoValue
    /\ ret = NoValue
    /\ arg \in UNION {MatchMapsOf(k, ProbeMatchConfidence) : k \in 0..MaxMatches}

NextStrategy ==
    \/ CallCreateEvaluationPlan
    \/ CallShouldEvaluateAsApplication

SpecStrategy == InitStrategy /\ [][NextStrategy]_vars

\* C14: create_evaluation_plan assigns to every key of the match map exactly
\* one tier and has no other keys: direct if confidence >= 0.8, semantic if
\* 0.5 <= confidence < 0.8, structural if 0.3 <= confidence < 0.5, skip if
\* confidence < 0.3.
C14_PlanTiersByConfidence ==
    pc = "plan_done" =>
        /\ Len(ret.plan) = Len(arg)
        /\ DictKeys(ret.plan) = DictKeys(arg)
        /\ \A k \in DictKeys(arg) :
              LET c == DictGet(arg, k).confidence
                  tier == DictGet(ret.plan, k)
              IN /\ tier \in {"direct", "semantic", "structural", "skip"}
                 /\ tier = "direct" <=> 10 * c >= 8 * ONE
                 /\ tier = "semantic" <=> (10 * c >= 5 * ONE /\ 10 * c < 8 * ONE)
                 /\ tier = "structural" <=> (10 * c >= 3 * ONE /\ 10 * c < 5 * ONE)
                 /\ tier = "skip" <=> 10 * c < 3 * ONE

\* confidences exactly 0.8, 0.5, 0.3 and one below 0.3
C14_Witness ==
    /\ pc = "plan_done"
    /\ Len(arg) = 4
    /\ arg[1][2].confidence = (ONE * 8) \div 10
    /\ arg[2][2].confidence = (ONE * 5) \div 10
    /\ arg[3][2].confidence = (ONE * 3) \div 10
    /\ arg[4][2].confidence = (ONE * 29) \div 100
    /\ ret.plan = << <<GoldenFile(1), "direct">>, <<GoldenFile(2), "semantic">>,
                     <<GoldenFile(3), "structural">>, <<GoldenFile(4), "skip">> >>

\* the matches of confidence >= 0.5
HighConfidence == {i \in 1..Len(arg) : 2 * arg[i][2].confidence >= ONE}

\* C15: should_evaluate_as_application returns false for an empty match map,
\* and otherwise true if and only if the number of matches with confidence
\* >= 0.5 divided by the number of matches is at least 0.6.
C15_ApplicationIffSixtyPercent ==
    pc = "should_done" =>
        /\ arg = <<>> => ret.as_application = FALSE
        /\ arg # <<>> =>
              (ret.as_application <=>
                  5 * Cardinality(HighConfidence) >= 3 * Len(arg))

\* five matches, exactly three of confidence >= 0.5: the ratio is exactly 0.6
C15_Witness ==
    /\ pc = "should_done"
    /\ Len(arg) = 5
    /\ Cardinality(HighConfidence) = 3
    /\ ret.as_application = TRUE

(***************************************************************************)
(* universal_evaluator.py: the per-file part of _evaluate_applications     *)
(* (SpecApp): create_evaluation_plan, _evaluate_matched_files,             *)
(* _evaluate_file_pair_with_strategy, _apply_strategy_adjustments,         *)
(* _calculate_weighted_score, _calculate_average_metric.                   *)
(***************************************************************************)

\* a * b with the second factor read as a percentage
Mul_percent(a, b) == (a * b) \div 100

\* a * b of two numbers in units of 1/ONE
Mul(a, b) == (a * b) \div ONE

\* the result evaluate_code_pair returns for a file pair, by its
\* overall_similarity; metadata is a dict
BaseResult(overall_similarity) ==
    EvaluationResult(
        [overall_similarity |-> overall_similarity,
         functional_equivalence |-> (ONE * 5) \div 10,
         structural_similarity |-> (ONE * 8) \div 10,
         style_consistency |-> (ONE * 4) \div 10,
         complexity_delta |-> (ONE * 1) \div 10,
         performance_impact |-> (ONE * 6) \div 10,
         maintainability_score |-> (ONE * 7) \div 10,
         accessibility_score |-> (ONE * 9) \div 10,
         security_score |-> (ONE * 3) \div 10])
    @@ [metadata |-> <<>>]

\* overall_similarity values of evaluate_code_pair: 0.2 and 1.0
ProbeBaseSimilarity == {(ONE * 2) \div 10, ONE}

\* match confidences of the file pairs: 0.1, 0.29, 0.3, 0.5, 0.8
ProbePairConfidence ==
    {(ONE * 1) \div 10, (ONE * 29) \div 100, (ONE * 3) \div 10, (ONE * 5) \div 10,
     (ONE * 8) \div 10}

\* _apply_strategy_adjustments whose semantic branch also weights
\* functional_equivalence
ApplyStrategyAdjustments_both(result, strategy, match_confidence) ==
    LET adjusted ==
            IF strategy = "semantic"
            THEN [result EXCEPT
                    !.overall_similarity = Mul(@, match_confidence),
                    !.functional_equivalence = Mul(@, match_confidence)]
            ELSE IF strategy = "structural"
            THEN [result EXCEPT !.structural_similarity = Mul(@, match_confidence)]
            ELSE result
    IN [adjusted EXCEPT
          !.metadata = DictSet(DictSet(@, "match_confidence", match_confidence),
                               "evaluation_strategy", strategy)]

\* _apply_strategy_adjustments
ApplyStrategyAdjustments(result, strategy, match_confidence) ==
    LET adjusted ==
            IF strategy = "semantic"
            THEN [result EXCEPT !.overall_similarity = Mul(@, match_confidence)]
            ELSE IF strategy = "structural"
            THEN [result EXCEPT !.structural_similarity = Mul(@, match_confidence)]
            ELSE IF strategy = "functional"
            THEN [result EXCEPT
                    !.overall_similarity = Mul(@, match_confidence),
                    !.functional_equivalence = Mul(@, match_confidence)]
            ELSE result
    IN [adjusted EXCEPT
          !.metadata = DictSet(DictSet(@, "match_confidence", match_confidence),
                               "evaluation_strategy", strategy)]

\* loop body of _evaluate_matched_files that stores a zero-score result for a
\* file pair whose evaluation raised
FileStep_fallback(file_results, golden_file, match_result, strategy, outcome) ==
    IF strategy = "skip" THEN file_results
    ELSE IF outcome.kind = "raise"
    THEN DictSet(file_results, golden_file,
                 ApplyStrategyAdjustments(BaseResult(0), strategy,
                                          match_result.confidence))
    ELSE DictSet(file_results, golden_file,
                 ApplyStrategyAdjustments(outcome.result, strategy,
                                          match_result.confidence))

\* loop body of _evaluate_matched_files: a skip tier is passed over; an
\* exception of _evaluate_file_pair_with_strategy is logged and nothing is
\* stored; otherwise the adjusted result is stored
FileStep(file_results, golden_file, match_result, strategy, outcome) ==
    IF strategy = "skip" THEN file_results
    ELSE IF outcome.kind = "raise" THEN file_results
    ELSE DictSet(file_results, golden_file,
                 ApplyStrategyAdjustments(outcome.result, strategy,
                                          match_result.confidence))

RECURSIVE WeightedLoop(_, _, _, _)
\* the loop of _calculate_weighted_score over file_results.items()
WeightedLoop(file_results, file_matches, i, acc) ==
    IF i > Len(file_results) THEN acc
    ELSE WeightedLoop(file_results, file_matches, i + 1,
             WeightedStep(acc, file_results[i][2].overall_similarity,
                          DictGet(file_matches, file_results[i][1]).confidence))

\* _calculate_weighted_score(file_results, file_matches)
CalculateWeightedScore(file_results, file_matches) ==
    IF file_results = <<>> THEN Zero
    ELSE LET acc == WeightedLoop(file_results, file_matches, 1,
                                 [weighted_sum |-> 0, total_weight |-> 0])
         IN SafeDivide(acc.weighted_sum, acc.total_weight, Zero)

\* _calculate_average_metric that weights each file by the match confidence
\* recorded in its metadata
CalculateAverageMetric_weighted(file_results, metric_name) ==
    IF file_results = <<>> THEN Zero
    ELSE [num |-> SeqSum([i \in 1..Len(file_results) |->
                             file_results[i][2][metric_name]
                               * DictGet(file_results[i][2].metadata, "match_confidence")]),
          den |-> SeqSum([i \in 1..Len(file_results) |->
                             DictGet(file_results[i][2].metadata, "match_confidence")])]

\* _calculate_average_metric(file_results, metric_name)
CalculateAverageMetric(file_results, metric_name) ==
    IF file_results = <<>> THEN Zero
    ELSE [num |-> SeqSum([i \in 1..Len(file_results) |->
                             file_results[i][2][metric_name]]),
          den |-> Len(file_results)]

\* the EvaluationResult _evaluate_applications constructs from the aggregate
\* scores (fractions in units of 1/ONE); __post_init__ checks score_fields
ApplicationResult(file_results, file_matches, evaluation_plan) ==
    LET scores ==
            [f \in SeqToSet(ResultFields) |->
                IF f = "overall_similarity"
                THEN CalculateWeightedScore(file_results, file_matches)
                ELSE CalculateAverageMetric(file_results, f)]
    IN IF \E k \in 1..Len(ScoreFields) :
             ~(0 <= scores[ScoreFields[k]].num
               /\ scores[ScoreFields[k]].num <= ONE * scores[ScoreFields[k]].den)
       THEN [exception |-> "ValueError"]
       ELSE scores @@
            [file_results |-> file_results,
             evaluation_plan |-> evaluation_plan,
             metadata |-> << <<"evaluation_type", "application">>,
                             <<"total_files_matched", Len(file_matches)>> >>]

\* evaluation_plan = create_evaluation_plan(file_matches); file_results = {}
AppBegin ==
    /\ pc = "evaluate_applications"
    /\ loc' = [evaluation_plan |-> CreateEvaluationPlan(arg), i |-> 1,
               file_results |-> <<>>, calls |-> <<>>]
    /\ pc' = "files_loop"
    /\ UNCHANGED <<golden, generated, matches, used, raised, arg, ret>>

\* one iteration of `for golden_file, match_result in file_matches.items()`
\* with the outcome of _evaluate_file_pair_with_strategy's parsing and
\* evaluate_code_pair; loc.calls records the strategy and the outcome
FileIterate(outcome) ==
    /\ pc = "files_loop"
    /\ loc.i <= Len(arg)
    /\ LET golden_file == arg[loc.i][1]
           match_result == arg[loc.i][2]
           strategy == IF golden_file \in DictKeys(loc.evaluation_plan)
                       THEN DictGet(loc.evaluation_plan, golden_file)
                       ELSE "skip"
       IN /\ (outcome.kind = "skip") <=> (strategy = "skip")
          /\ loc' = [loc EXCEPT
                       !.i = @ + 1,
                       !.file_results = FileStep(@, golden_file, match_result,
                                                 strategy, outcome),
                       !.calls = Append(@, [golden_file |-> golden_file,
                                            strategy |-> strategy,
                                            confidence |-> match_result.confidence,
                                            outcome |-> outcome])]
    /\ UNCHANGED <<pc, golden, generated, matches, used, raised, arg, ret>>

\* the plan says skip: `continue`
FileSkipped == FileIterate([kind |-> "skip"])

\* _evaluate_file_pair_with_strategy returns
FilePairEvaluated ==
    \E overall \in ProbeBaseSimilarity :
        FileIterate([kind |-> "result", result |-> BaseResult(overall)])

\* _evaluate_file_pair_with_strategy raises (a file that cannot be parsed,
\* or a failing collaborator)
FilePairRaises == FileIterate([kind |-> "raise"])

\* the aggregate scores and the EvaluationResult of the application
AppReturn ==
    /\ pc = "files_loop"
    /\ loc.i > Len(arg)
    /\ LET r == ApplicationResult(loc.file_results, arg, loc.evaluation_plan)
       IN IF IsException(r)
          THEN /\ raised' = r.exception
               /\ pc' = "raised"
               /\ UNCHANGED ret
          ELSE /\ ret' = r
               /\ pc' = "app_done"
               /\ UNCHANGED raised
    /\ UNCHANGED <<golden, generated, matches, used, arg, loc>>

InitApp ==
    /\ pc = "evaluate_applications"
    /\ golden = <<>>
    /\ generated = <<>>
    /\ matches = EmptyMap
    /\ used = {}
    /\ raised = "none"
    /\ loc = NoValue
    /\ ret = NoValue
    /\ arg \in UNION {MatchMapsOf(k, ProbePairConfidence) : k \in 0..MaxPairs}

NextApp ==
    \/ AppBegin
    \/ FileSkipped
    \/ FilePairEvaluated
    \/ FilePairRaises
    \/ AppReturn

SpecApp == InitApp /\ [][NextApp]_vars

\* the file pairs whose evaluation returned, and those whose evaluation raised
PairsEvaluated == {i \in 1..Len(loc.calls) : loc.calls[i].outcome.kind = "result"}
PairsFailed == {i \in 1..Len(loc.calls) : loc.calls[i].outcome.kind = "raise"}

\* the score fields other than those in a set
OtherFields(changed) == SeqToSet(ResultFields) \ changed

\* C16: the tier adjustment of a per-file result changes only the named
\* fields: direct leaves all nine scores unchanged, semantic multiplies only
\* overall_similarity by the match confidence, structural multiplies only
\* structural_similarity by the match confidence; under every tier
\* match_confidence and evaluation_strategy are recorded in metadata.
C16_AdjustmentFrame ==
    pc \in {"files_loop", "app_done"} =>
        \A i \in PairsEvaluated :
            LET call == loc.calls[i]
                base == call.outcome.result
                c == call.confidence
                adjusted == DictGet(loc.file_results, call.golden_file)
            IN /\ call.strategy \in {"direct", "semantic", "structural"}
               /\ call.strategy = "direct" =>
                     \A f \in OtherFields({}) : adjusted[f] = base[f]
               /\ call.strategy = "semantic" =>
                     /\ adjusted.overall_similarity * ONE = base.overall_similarity * c
                     /\ \A f \in OtherFields({"overall_similarity"}) :
                           adjusted[f] = base[f]
               /\ call.strategy = "structural" =>
                     /\ adjusted.structural_similarity * ONE
                           = base.structural_similarity * c
                     /\ \A f \in OtherFields({"structural_similarity"}) :
                           adjusted[f] = base[f]
               /\ DictKeys(adjusted.metadata) = {"match_confidence", "evaluation_strategy"}
               /\ DictGet(adjusted.metadata, "match_confidence") = c
               /\ DictGet(adjusted.metadata, "evaluation_strategy") = call.strategy

\* a direct, a semantic and a structural file pair, all evaluated
C16_Witness ==
    /\ pc = "app_done"
    /\ Len(loc.calls) = 3
    /\ PairsEvaluated = {1, 2, 3}
    /\ {loc.calls[i].strategy : i \in 1..3} = {"direct", "semantic", "structural"}
    /\ \E i \in 1..3 :
          /\ loc.calls[i].strategy = "semantic"
          /\ DictGet(loc.file_results, loc.calls[i].golden_file).overall_similarity
                # loc.calls[i].outcome.result.overall_similarity

\* a call's adjusted overall_similarity times its match confidence
AdjustedOverallTimesConfidence(call) ==
    ApplyStrategyAdjustments(call.outcome.result, call.strategy,
                             call.confidence).overall_similarity * call.confidence

RECURSIVE PairSum(_, _)
\* the sum over the calls in idx of score * confidence (weighted) or of the
\* confidence alone
PairSum(idx, weighted) ==
    IF idx = {} THEN 0
    ELSE LET i == CHOOSE x \in idx : TRUE
         IN (IF weighted THEN AdjustedOverallTimesConfidence(loc.calls[i])
             ELSE loc.calls[i].confidence)
            + PairSum(idx \ {i}, weighted)

\* C17 as stated: a file pair whose evaluation raised contributes a (neutral
\* fallback) score of its own to the aggregate, i.e. it has a result among
\* the per-file results the aggregate is computed from.
C17_FailedFileScoredNeutral ==
    pc = "app_done" =>
        \A i \in PairsFailed : loc.calls[i].golden_file \in DictKeys(ret.file_results)

\* C17 (amended): when evaluating a matched file pair raises, the application
\* evaluation still returns a result, the results of the other file pairs
\* are what they are without the failure, and the failed file is left out:
\* it has no per-file result and the overall score is the confidence-weighted
\* mean of the file pairs that were evaluated (0.0 when there is none).
C17_FailedFileExcluded ==
    /\ pc # "raised"
    /\ pc = "app_done" =>
          /\ DictKeys(ret.file_results)
                = {loc.calls[i].golden_file : i \in PairsEvaluated}
          /\ Len(ret.file_results) = Cardinality(PairsEvaluated)
          /\ \A i \in PairsEvaluated :
                DictGet(ret.file_results, loc.calls[i].golden_file)
                   = ApplyStrategyAdjustments(loc.calls[i].outcome.result,
                                              loc.calls[i].strategy,
                                              loc.calls[i].confidence)
          /\ PairsEvaluated = {} => ret.overall_similarity = Zero
          /\ PairsEvaluated # {} =>
                /\ ret.overall_similarity.den > 0
                /\ ret.overall_similarity.num * PairSum(PairsEvaluated, FALSE)
                      = PairSum(PairsEvaluated, TRUE)
                          * ret.overall_similarity.den

\* three file pairs, the second raises, the others are evaluated
C17_Witness ==
    /\ pc = "app_done"
    /\ Len(loc.calls) = 3
    /\ PairsEvaluated = {1, 3}
    /\ PairsFailed = {2}
    /\ Len(ret.file_results) = 2

(***************************************************************************)
(* universal_evaluator.py: evaluate (SpecEvaluate).  A path is modelled by *)
(* what the file system holds at it.                                       *)
(***************************************************************************)

PathKinds ==
    {"file",             \* a readable, non-empty file of a supported type
     "empty_file",       \* a file whose content is blank
     "unsupported_file", \* a file of an unsupported extension
     "unreadable_file",  \* a file whose open() fails with OSError
     "directory",        \* a directory that holds a supported file
     "empty_directory",  \* a directory without any supported file
     "missing",          \* nothing exists at the path (supported extension)
     "missing_unsupported"}  \* nothing exists there; unsupported extension

EvaluationTypes == {"auto", "file", "app", "invalid"}

\* Path(path).is_dir(), Path(path).is_file(), Path(path).exists()
IsDir(path) == path \in {"directory", "empty_directory"}
IsFile(path) == path \in {"file", "empty_file", "unsupported_file", "unreadable_file"}
Exists(path) == path \notin {"missing", "missing_unsupported"}

\* path.suffix not in self.supported_extensions (and not "", Dockerfile,
\* Makefile)
UnsupportedSuffix(path) == path \in {"unsupported_file", "missing_unsupported"}

Returns(value) == [kind |-> "result", value |-> value]
Raises(exception) == [kind |-> "raise", exception |-> exception]

\* _determine_evaluation_type that treats a mixed pair as an application
DetermineEvaluationType_either(golden_path, generated_path, evaluation_type) ==
    IF evaluation_type # "auto" THEN evaluation_type
    ELSE IF IsDir(golden_path) \/ IsDir(generated_path) THEN "app"
    ELSE "file"

\* _determine_evaluation_type
DetermineEvaluationType(golden_path, generated_path, evaluation_type) ==
    IF evaluation_type # "auto" THEN evaluation_type
    ELSE IF IsDir(golden_path) /\ IsDir(generated_path) THEN "app"
    ELSE IF ~IsDir(golden_path) /\ ~IsDir(generated_path) THEN "file"
    ELSE "file"

\* _resolve_file_path: a file resolves to itself, a directory to a file in
\* it (FileNotFoundError if it has none), a missing path to itself
ResolveFilePath(path) ==
    IF IsFile(path) THEN Returns(path)
    ELSE IF path = "directory" THEN Returns("file")
    ELSE IF path = "empty_directory" THEN Raises("FileNotFoundError")
    ELSE Returns(path)

\* UniversalParser.parse_file: the sample, None (NoValue) for a blank file,
\* or the exception it raises; the extension is checked before the existence
ParseFile(path) ==
    IF UnsupportedSuffix(path) THEN Raises("UnsupportedFileTypeError")
    ELSE IF ~Exists(path) THEN Raises("FileNotFoundError")
    ELSE IF path = "unreadable_file" THEN Raises("FileParsingError")
    ELSE IF path = "empty_file" THEN NoValue
    ELSE Returns("sample")

\* the `except Exception as e: raise FileParsingError(...)` of
\* parse_application
WrapParsingError(outcome) ==
    IF outcome.kind = "raise" THEN Raises("FileParsingError") ELSE outcome

\* UniversalParser.parse_application: FileNotFoundError for a missing path
\* and ValueError for a path that is no directory are raised inside its try
\* block and leave it as FileParsingError
ParseApplication(path) ==
    WrapParsingError(
        IF ~Exists(path) THEN Raises("FileNotFoundError")
        ELSE IF ~IsDir(path) THEN Raises("ValueError")
        ELSE Returns("structure"))

\* _evaluate_single_file; collaborator is the outcome of evaluate_code_pair
EvaluateSingleFile(golden_path, generated_path, collaborator) ==
    LET actual_golden_path == ResolveFilePath(golden_path)
        actual_generated_path == ResolveFilePath(generated_path)
    IN IF actual_golden_path.kind = "raise" THEN actual_golden_path
       ELSE IF actual_generated_path.kind = "raise" THEN actual_generated_path
       ELSE LET golden_sample == ParseFile(actual_golden_path.value)
                generated_sample == ParseFile(actual_generated_path.value)
            IN IF golden_sample.kind = "raise" THEN golden_sample
               ELSE IF generated_sample.kind = "raise" THEN generated_sample
               ELSE IF golden_sample = NoValue \/ generated_sample = NoValue
               THEN Raises("EvaluationError")
               ELSE IF collaborator.kind = "raise" THEN collaborator
               ELSE Returns([collaborator.value EXCEPT
                               !.metadata = DictSet(@, "evaluation_type", "file")])

\* _evaluate_applications; rest is the outcome of the matching, per-file
\* evaluation and aggregation that follow the parsing
EvaluateApplications(golden_app_path, generated_app_path, rest) ==
    LET golden_structure == ParseApplication(golden_app_path)
        generated_structure == ParseApplication(generated_app_path)
    IN IF golden_structure.kind = "raise" THEN golden_structure
       ELSE IF generated_structure.kind = "raise" THEN generated_structure
       ELSE IF rest.kind = "raise" THEN rest
       ELSE Returns([rest.value EXCEPT
                       !.metadata = DictSet(@, "evaluation_type", "application")])

\* the result `except FileNotFoundError` returns
ErrorResult(evaluation_type, exception) ==
    [ScoreResult(0) @@ [metadata |-> <<>>] EXCEPT
        !.metadata = DictSet(DictSet(@, "evaluation_type", evaluation_type),
                             "error", exception)]

\* the try/except of evaluate without the `except FileNotFoundError` clause
Handle_raiseAll(outcome, evaluation_type) ==
    IF outcome.kind = "result" THEN outcome
    ELSE Raises("EvaluationError")

\* the try/except of evaluate: a FileNotFoundError becomes a zero-score
\* result, every other exception an EvaluationError
Handle(outcome, evaluation_type) ==
    IF outcome.kind = "result" THEN outcome
    ELSE IF outcome.exception = "FileNotFoundError"
    THEN Returns(ErrorResult(evaluation_type, outcome.exception))
    ELSE Raises("EvaluationError")

\* what the evaluation of the code returns when the paths can be parsed
InnerOutcomes ==
    {Returns(BaseResult(score)) : score \in ProbeModelScore}
        \cup {Raises("RuntimeError")}

\* evaluation_type = self._determine_evaluation_type(...)
Determine ==
    /\ pc = "evaluate"
    /\ loc' = [evaluation_type |->
                  DetermineEvaluationType(arg.golden_path, arg.generated_path,
                                          arg.evaluation_type),
               ran |-> "none", outcome |-> NoValue]
    /\ pc' = "dispatch"
    /\ UNCHANGED <<golden, generated, matches, used, raised, arg, ret>>

\* the branch taken, its outcome, and the except clauses of evaluate
Dispatch(branch, outcome) ==
    /\ pc = "dispatch"
    /\ loc' = [loc EXCEPT !.ran = branch, !.outcome = outcome]
    /\ LET handled == Handle(outcome, loc.evaluation_type)
       IN IF handled.kind = "result"
          THEN /\ ret' = handled.value
               /\ pc' = "evaluate_done"
               /\ UNCHANGED raised
          ELSE /\ raised' = handled.exception
               /\ pc' = "raised"
               /\ UNCHANGED ret
    /\ UNCHANGED <<golden, generated, matches, used, arg>>

\* if evaluation_type == "file": return self._evaluate_single_file(...)
RunSingleFile ==
    /\ pc = "dispatch"
    /\ loc.evaluation_type = "file"
    /\ \E collaborator \in InnerOutcomes :
          Dispatch("file", EvaluateSingleFile(arg.golden_path, arg.generated_path,
                                              collaborator))

\* elif evaluation_type == "app": return self._evaluate_applications(...)
RunApplications ==
    /\ pc = "dispatch"
    /\ loc.evaluation_type = "app"
    /\ \E rest \in InnerOutcomes :
          Dispatch("app", EvaluateApplications(arg.golden_path, arg.generated_path,
                                               rest))

\* else: raise EvaluationError("Unsupported evaluation type: ...")
RunUnsupported ==
    /\ pc = "dispatch"
    /\ loc.evaluation_type \notin {"file", "app"}
    /\ Dispatch("none", Raises("EvaluationError"))

InitEvaluate ==
    /\ pc = "evaluate"
    /\ golden = <<>>
    /\ generated = <<>>
    /\ matches = EmptyMap
    /\ used = {}
    /\ raised = "none"
    /\ loc = NoValue
    /\ ret = NoValue
    /\ arg \in [golden_path : PathKinds, generated_path : PathKinds,
                 evaluation_type : EvaluationTypes]

NextEvaluate ==
    \/ Determine
    \/ RunSingleFile
    \/ RunApplications
    \/ RunUnsupported

SpecEvaluate == InitEvaluate /\ [][NextEvaluate]_vars

\* evaluate has finished after a failure of the branch it ran
Finished == pc \in {"evaluate_done", "raised"}
Failed == Finished /\ loc.outcome.kind = "raise"

\* evaluate returned the zero-score result annotated with the error
ReturnedErrorResult ==
    /\ pc = "evaluate_done"
    /\ \A k \in 1..Len(ResultFields) : ret[ResultFields[k]] = 0
    /\ DictKeys(ret.metadata) = {"evaluation_type", "error"}
    /\ DictGet(ret.metadata, "evaluation_type") = loc.evaluation_type
    /\ DictGet(ret.metadata, "error") = loc.outcome.exception

RaisedEvaluationError == pc = "raised" /\ raised = "EvaluationError"

\* a path at which no file is found, and a path that evaluates without error
NotFound(path) == path \in {"missing", "missing_unsupported", "empty_directory"}
Sound(path) == path \in {"file", "directory"}

\* a single-file evaluation whose only defect is a file that is not found
OnlyNotFound ==
    /\ loc.ran = "file"
    /\ NotFound(arg.golden_path) \/ NotFound(arg.generated_path)
    /\ \A path \in {arg.golden_path, arg.generated_path} :
          NotFound(path) \/ Sound(path)

\* C18 as stated: evaluate returns the zero-score result with error metadata
\* when a file is not found in single-file evaluation, and raises
\* EvaluationError for every other failure.
C18_NotFoundRecoveredOthersRaise ==
    /\ (Finished /\ OnlyNotFound) => ReturnedErrorResult
    /\ (Failed /\ ~(loc.ran = "file"
                     /\ (NotFound(arg.golden_path) \/ NotFound(arg.generated_path))))
          => RaisedEvaluationError

\* C18 (amended): evaluate returns the zero-score result whose metadata
\* carries the error and the evaluation type exactly when the single-file
\* evaluation raises FileNotFoundError, i.e. a path of a supported extension
\* does not exist or a directory holds no supported file; every other failure
\* raises EvaluationError: an unrecognized evaluation_type, a file that cannot
\* be parsed, a missing path of an unsupported extension (the extension is
\* checked first), and every failure of an application evaluation, a missing
\* application path included.
C18_FileNotFoundErrorRecovered ==
    /\ Failed =>
          IF loc.outcome.exception = "FileNotFoundError"
          THEN ReturnedErrorResult /\ loc.ran = "file"
          ELSE RaisedEvaluationError
    /\ (Finished /\ OnlyNotFound
          /\ "missing_unsupported" \notin {arg.golden_path, arg.generated_path})
          => ReturnedErrorResult
    /\ (Finished /\ loc.ran = "file"
          /\ \/ /\ arg.golden_path = "missing_unsupported"
                /\ arg.generated_path # "empty_directory"
             \/ /\ Sound(arg.golden_path)
                /\ arg.generated_path = "missing_unsupported")
          => RaisedEvaluationError
    /\ (Finished /\ arg.evaluation_type = "invalid") => RaisedEvaluationError
    /\ (Finished /\ loc.ran = "file" /\ arg.golden_path = "unreadable_file"
          /\ arg.generated_path # "empty_directory") => RaisedEvaluationError
    /\ (Failed /\ loc.ran = "app") => RaisedEvaluationError

\* a single-file evaluation of an existing and a missing file returns the
\* error result
C18_Witness ==
    /\ ReturnedErrorResult
    /\ loc.ran = "file"
    /\ arg.golden_path = "file"
    /\ arg.generated_path = "missing"
    /\ DictGet(ret.metadata, "error") = "FileNotFoundError"

\* C19: with evaluation_type auto the evaluation runs as an application
\* evaluation if and only if both paths are directories, and as a single-file
\* evaluation in every other case, one file and one directory included; an
\* explicit evaluation_type of file or app is used as given.
C19_AutoDetection ==
    Finished =>
        /\ arg.evaluation_type = "auto" =>
              /\ loc.ran \in {"file", "app"}
              /\ loc.ran = "app" <=>
                    (IsDir(arg.golden_path) /\ IsDir(arg.generated_path))
        /\ arg.evaluation_type \in {"file", "app"} => loc.ran = arg.evaluation_type

\* auto with a file and a directory: evaluated as single files
C19_Witness ==
    /\ pc = "evaluate_done"
    /\ arg.evaluation_type = "auto"
    /\ arg.golden_path = "file"
    /\ arg.generated_path = "directory"
    /\ loc.ran = "file"
    /\ DictGet(ret.metadata, "evaluation_type") = "file"
    /\ ret.overall_similarity > 0

(***************************************************************************)
(* universal_evaluator.py: _analyze_language_compatibility (SpecLanguage)  *)
(***************************************************************************)

LanguageNames ==
    <<"python", "javascript", "typescript", "css", "html", "go", "rust", "java">>

\* the languages a structure may be detected to use
Languages == {LanguageNames[i] : i \in 1..MinOf(MaxLanguages, Len(LanguageNames))}

\* the compatibility status decided from the overlap over the larger set
\* instead of the similarity over the union
LanguageStatus_overlap(common_languages, golden_languages, generated_languages) ==
    LET larger == MaxOf(Cardinality(golden_languages), Cardinality(generated_languages))
    IN IF larger = 0 \/ Cardinality(common_languages) = larger THEN "compatible"
       ELSE IF 2 * Cardinality(common_languages) >= larger THEN "partially_compatible"
       ELSE "incompatible"

\* language_similarity = len(common) / len(total) if total else 1.0, compared
\* with 1.0 and 0.5
LanguageStatus(common_languages, golden_languages, generated_languages) ==
    LET total_languages == golden_languages \cup generated_languages
        language_similarity ==
            IF total_languages # {}
            THEN [num |-> Cardinality(common_languages),
                  den |-> Cardinality(total_languages)]
            ELSE [num |-> 1, den |-> 1]
    IN IF language_similarity.num = language_similarity.den THEN "compatible"
       ELSE IF 2 * language_similarity.num >= language_similarity.den
       THEN "partially_compatible"
       ELSE "incompatible"

\* _analyze_language_compatibility; overlap_percentage is a fraction
AnalyzeLanguageCompatibility(golden_languages, generated_languages) ==
    LET common_languages == golden_languages \cap generated_languages
        golden_only == golden_languages \ generated_languages
        generated_only == generated_languages \ golden_languages
        max_lang_count ==
            IF golden_languages # {} \/ generated_languages # {}
            THEN MaxOf(Cardinality(golden_languages), Cardinality(generated_languages))
            ELSE 0
    IN [status |-> LanguageStatus(common_languages, golden_languages,
                                  generated_languages),
        overlap_percentage |->
            IF max_lang_count = 0 THEN [num |-> 100, den |-> 1]
            ELSE [num |-> Cardinality(common_languages) * 100, den |-> max_lang_count],
        common_languages |-> common_languages,
        missing_languages |-> golden_only,
        extra_languages |-> generated_only]

\* a call of _analyze_language_compatibility(golden, generated)
CallAnalyzeLanguageCompatibility ==
    /\ pc = "language_compatibility"
    /\ ret' = AnalyzeLanguageCompatibility(arg.golden, arg.generated)
    /\ pc' = "language_done"
    /\ UNCHANGED <<golden, generated, matches, used, raised, arg, loc>>

InitLanguage ==
    /\ pc = "language_compatibility"
    /\ golden = <<>>
    /\ generated = <<>>
    /\ matches = EmptyMap
    /\ used = {}
    /\ raised = "none"
    /\ loc = NoValue
    /\ ret = NoValue
    /\ arg \in [golden : SUBSET Languages, generated : SUBSET Languages]

NextLanguage == CallAnalyzeLanguageCompatibility

SpecLanguage == InitLanguage /\ [][NextLanguage]_vars

\* C20: language compatibility reports common = golden /\ generated, missing
\* = golden - generated, extra = generated - golden, overlap_percentage =
\* |common| / max(|golden|, |generated|) * 100 (100 when both are empty), and
\* status compatible when |common| / |golden \/ generated| = 1 (or both are
\* empty), partially_compatible when that ratio is at least 0.5 and below 1,
\* incompatible otherwise.
C20_LanguageCompatibility ==
    pc = "language_done" =>
        LET g == arg.golden
            n == arg.generated
            common == {l \in Languages : l \in g /\ l \in n}
            union == {l \in Languages : l \in g \/ l \in n}
            larger == IF Cardinality(g) >= Cardinality(n) THEN Cardinality(g)
                      ELSE Cardinality(n)
        IN /\ ret.common_languages = common
           /\ ret.missing_languages = {l \in g : l \notin n}
           /\ ret.extra_languages = {l \in n : l \notin g}
           /\ ret.overlap_percentage.den > 0
           /\ union = {} => ret.overlap_percentage.num = 100 * ret.overlap_percentage.den
           /\ union # {} =>
                 ret.overlap_percentage.num * larger
                    = 100 * Cardinality(common) * ret.overlap_percentage.den
           /\ ret.status = "compatible" <=>
                 (union = {} \/ Cardinality(common) = Cardinality(union))
           /\ ret.status = "partially_compatible" <=>
                 /\ union # {}
                 /\ 2 * Cardinality(common) >= Cardinality(union)
                 /\ Cardinality(common) < Cardinality(union)
           /\ ret.status = "incompatible" <=>
                 (union # {} /\ 2 * Cardinality(common) < Cardinality(union))

\* golden {python, javascript, css}, generated {python, typescript, css}:
\* partially_compatible, overlap 66.67%, common {python, css}
C20_Witness ==
    /\ pc = "language_done"
    /\ arg.golden = {"python", "javascript", "css"}
    /\ arg.generated = {"python", "typescript", "css"}
    /\ ret.status = "partially_compatible"
    /\ ret.overlap_percentage = [num |-> 200, den |-> 3]
    /\ ret.common_languages = {"python", "css"}

(***************************************************************************)
(* Structural diagnostics after match_files (SpecMatch)                    *)
(***************************************************************************)

\* the generated files that are the generated_file of an entry of the map
MatchedGenerated == {matches[g].generated_file : g \in Matched}

\* C21: missing_files is exactly the set of golden file paths that are not
\* keys of the match map, extra_files is exactly the set of generated file
\* paths that are not the generated_file of any entry; every golden file is
\* either matched or missing and every generated file is either matched or
\* extra, never both.
C21_MissingAndExtraPartition ==
    pc = "analyzed" =>
        /\ ret.missing_files = {g \in ret.all_golden_files : g \notin Matched}
        /\ ret.extra_files =
              {j \in ret.all_generated_files : j \notin MatchedGenerated}
        /\ \A g \in ret.all_golden_files :
              (g \in Matched) <=> (g \notin ret.missing_files)
        /\ \A j \in ret.all_generated_files :
              (j \in MatchedGenerated) <=> (j \notin ret.extra_files)

\* two golden and two generated files analysed, one of each not analysable;
\* a golden file is missing and the fallback pass chose a generated file
C21_Witness ==
    /\ pc = "analyzed"
    /\ Cardinality(ret.all_golden_files) = 3
    /\ Cardinality(ret.all_generated_files) = 3
    /\ Cardinality(Matched) = 1
    /\ Cardinality(ret.missing_files) = 2
    /\ Cardinality(ret.extra_files) = 2
    /\ FallbackChosen # {}

\* C26: every generated file that a pass of match_files marked as used is
\* the generated_file of exactly one entry of the returned map, and a
\* generated file is reported in extra_files only if no pass chose it.
C26_UsedFilesAreMatched ==
    /\ pc \in {"done", "analyzed"} =>
          \A j \in used :
              Cardinality({g \in Matched : matches[g].generated_file = j}) = 1
    /\ pc = "analyzed" => \A j \in ret.extra_files : j \notin used

(***************************************************************************)
(* The scoring passes (SpecMatch)                                          *)
(***************************************************************************)

ScoringStrategies == {"component_signature", "functionality", "content_similarity"}

\* the golden files whose entry in the map after a pass was written by it
WrittenBy(strategy, after) ==
    {g \in DOMAIN after : after[g].match_strategy = strategy}

\* the generated files consumed when the pass reaches golden file g: those
\* used before the pass and those the pass gave to earlier golden files
ConsumedBefore(strategy, after, usedBefore, g) ==
    usedBefore \cup
        {after[h].generated_file : h \in {w \in WrittenBy(strategy, after) : w < g}}

\* one step of a scoring pass pairs each golden file as the claim describes
BestUnconsumedPaired(strategy, after, usedBefore) ==
    LET conf == Confidences(strategy, golden, generated)
    IN \A g \in 1..Len(golden) :
          LET free == (1..Len(generated)) \
                          ConsumedBefore(strategy, after, usedBefore, g)
          IN IF g \in WrittenBy(strategy, after)
             THEN LET j == after[g].generated_file
                  IN /\ j \in free
                     /\ after[g].confidence = conf[g][j]
                     /\ conf[g][j] > Threshold(strategy)
                     /\ \A k \in free : /\ conf[g][k] <= conf[g][j]
                                        /\ conf[g][k] = conf[g][j] => j <= k
             ELSE \A k \in free : conf[g][k] <= Threshold(strategy)

\* first part of C23: in the component-signature, functionality and content
\* passes a golden file is paired with the highest-scoring unconsumed generated file
\* (the first one on ties) if and only if that score is strictly greater
\* than the pass threshold (0.7, 0.6, 0.5).
C23_ScoringPassPairsBestAboveThreshold ==
    [][(pc \in ScoringStrategies /\ pc' = NextPc(pc))
          => BestUnconsumedPaired(pc, matches', used)]_vars

\* second part of C23: every entry of the map has a confidence strictly
\* above the threshold of its strategy, exact-name entries have 1.0 and
\* fallback entries 0.1 or 0.3.
C23_ConfidenceByStrategy ==
    \A g \in Matched :
        LET m == matches[g]
        IN CASE m.match_strategy = "exact_name" -> m.confidence = ONE
             [] m.match_strategy = "fallback" ->
                    m.confidence \in {(ONE * 1) \div 10, (ONE * 3) \div 10}
             [] OTHER -> m.confidence > Threshold(m.match_strategy)

\* C23: the scoring passes pair each golden file with the first
\* highest-scoring unconsumed generated file exactly when its score is
\* strictly above the pass threshold, and therefore every entry of the map
\* carries the confidence its strategy allows.
C23_ScoringPassesPairBest ==
    C23_ScoringPassPairsBestAboveThreshold /\ []C23_ConfidenceByStrategy

\* a scoring pass has paired one golden file with the second generated file
\* although the first was free, and has left another golden file unpaired
\* although a generated file was free
C23_Witness ==
    /\ pc = "fallback"
    /\ Len(golden) = 2 /\ Len(generated) = 2
    /\ \E g \in Matched :
          /\ matches[g].match_strategy \in ScoringStrategies
          /\ matches[g].generated_file = 2
          /\ used = {2}
    /\ Cardinality(Matched) = 1

(***************************************************************************)
(* Summary statistics of a batch result (SpecBatch)                        *)
(***************************************************************************)

\* the scores of the models of a batch result, in evaluation order
ScoresOf(batch) ==
    [i \in 1..Len(batch.model_results) |-> batch.model_results[i][2].overall_similarity]

\* the square of the sample standard deviation (divisor N - 1) of the
\* scores equals the fraction `variance`; 0 when there are fewer than two
IsSampleVariance(variance, scores) ==
    LET n == Len(scores)
        squares == [i \in 1..n |-> scores[i] * scores[i]]
    IN IF n <= 1 THEN variance.num = 0
       ELSE variance.num * (n * (n - 1)) =
                (n * SeqSum(squares) - SeqSum(scores) * SeqSum(scores)) * variance.den

\* C22: the summary statistics of a batch result are the mean, the median,
\* the sample standard deviation (divisor N - 1, and 0 when N <= 1), the
\* minimum, the maximum and the range of the model scores (the range is
\* the difference of the maximum and the minimum stated here).
C22_SampleDeviationAndRange ==
    pc = "batch_done" =>
        LET scores == ScoresOf(ret)
            n == Len(scores)
            asc == SortedAscending(scores)
            stats == ret.summary_statistics
        IN /\ IsSampleVariance(stats.variance, scores)
           /\ n > 0 =>
                 /\ stats.mean.num * n = SeqSum(scores) * stats.mean.den
                 /\ stats.min = asc[1]
                 /\ stats.max = asc[n]

(***************************************************************************)
(* Aggregation of the per-file results (SpecApp)                           *)
(***************************************************************************)

RECURSIVE FieldSum(_, _)
\* the sum of one score field over the adjusted results of the calls in idx
FieldSum(idx, f) ==
    IF idx = {} THEN 0
    ELSE LET i == CHOOSE x \in idx : TRUE
         IN DictGet(loc.file_results, loc.calls[i].golden_file)[f]
            + FieldSum(idx \ {i}, f)

\* C24: each of the eight fields other than overall_similarity of an
\* application result is the unweighted arithmetic mean of that field over
\* the per-file results that were evaluated, and 0.0 when none was.
C24_OtherFieldsUnweightedMean ==
    pc = "app_done" =>
        \A f \in OtherFields({"overall_similarity"}) :
            IF PairsEvaluated = {} THEN ret[f] = Zero
            ELSE /\ ret[f].den > 0
                 /\ ret[f].num * Cardinality(PairsEvaluated)
                       = FieldSum(PairsEvaluated, f) * ret[f].den

\* a structural and a direct file pair were evaluated, so the files differ in
\* structural_similarity and in confidence, and a third pair was skipped
C24_Witness ==
    /\ pc = "app_done"
    /\ Len(loc.calls) = 3
    /\ Cardinality(PairsEvaluated) = 2
    /\ {loc.calls[i].strategy : i \in PairsEvaluated} = {"structural", "direct"}
    /\ ret.structural_similarity.num * 2
          # ((ONE * 8) \div 10) * 2 * ret.structural_similarity.den

\* the calls of the loop whose tier is skip
PairsSkipped == {i \in 1..Len(loc.calls) : loc.calls[i].strategy = "skip"}

\* C27: a file pair whose tier is skip (confidence below 0.3, which includes
\* every fallback match at 0.1) is never evaluated: it has no entry in
\* file_results and contributes nothing to the weighted overall score or to
\* the averaged fields, so the keys of file_results are a subset of the keys
\* of the match map whose tier is not skip.
C27_SkippedPairsNotEvaluated ==
    pc \in {"files_loop", "app_done"} =>
        /\ \A i \in 1..Len(loc.calls) :
              /\ (loc.calls[i].confidence < (ONE * 3) \div 10)
                    <=> (i \in PairsSkipped)
              /\ i \in PairsSkipped =>
                    /\ loc.calls[i].outcome.kind = "skip"
                    /\ loc.calls[i].golden_file \notin DictKeys(loc.file_results)
        /\ DictKeys(loc.file_results) \subseteq
              {arg[k][1] : k \in {m \in 1..Len(arg) :
                                    arg[m][2].confidence >= (ONE * 3) \div 10}}
        /\ pc = "app_done" =>
              /\ ret.file_results = loc.file_results
              /\ PairsEvaluated # {} =>
                    /\ ret.overall_similarity.num * PairSum(PairsEvaluated, FALSE)
                          = PairSum(PairsEvaluated, TRUE) * ret.overall_similarity.den
                    /\ \A f \in OtherFields({"overall_similarity"}) :
                          ret[f].num * Cardinality(PairsEvaluated)
                             = FieldSum(PairsEvaluated, f) * ret[f].den

\* a fallback match at 0.1 and a match at 0.29 were skipped and a third pair
\* was evaluated
C27_Witness ==
    /\ pc = "app_done"
    /\ Len(loc.calls) = 3
    /\ Cardinality(PairsSkipped) = 2
    /\ {loc.calls[i].confidence : i \in PairsSkipped}
          = {(ONE * 1) \div 10, (ONE * 29) \div 100}
    /\ Cardinality(PairsEvaluated) = 1
    /\ Len(ret.file_results) = 1

(***************************************************************************)
(* universal_evaluator.py: _apply_strategy_adjustments on its own          *)
(* (SpecAdjust): any tier with any match confidence in [0, 1]              *)
(***************************************************************************)

\* scores of evaluate_code_pair and match confidences: 0.0, 0.2, 0.5, 1.0
\* and 0.0, 0.3, 0.5, 1.0
ProbeAdjustScore == {0, (ONE * 2) \div 10, (ONE * 5) \div 10, ONE}
ProbeAdjustConfidence == {0, (ONE * 3) \div 10, (ONE * 5) \div 10, ONE}

\* the strategies _evaluate_file_pair_with_strategy may be called with
AdjustStrategies == {"direct", "semantic", "structural", "functional"}

\* a result of evaluate_code_pair by the three fields an adjustment touches
ProbeResult(overall, functional, structural) ==
    [BaseResult(overall) EXCEPT !.functional_equivalence = functional,
                                !.structural_similarity = structural]

\* self._apply_strategy_adjustments(result, strategy, match_confidence)
CallApplyStrategyAdjustments ==
    /\ pc = "apply_strategy_adjustments"
    /\ ret' = ApplyStrategyAdjustments(arg.result, arg.strategy, arg.match_confidence)
    /\ pc' = "adjusted"
    /\ UNCHANGED <<golden, generated, matches, used, raised, arg, loc>>

InitAdjust ==
    /\ pc = "apply_strategy_adjustments"
    /\ golden = <<>>
    /\ generated = <<>>
    /\ matches = EmptyMap
    /\ used = {}
    /\ raised = "none"
    /\ loc = NoValue
    /\ ret = NoValue
    /\ \E overall \in ProbeAdjustScore, functional \in ProbeAdjustScore,
          structural \in ProbeAdjustScore, strategy \in AdjustStrategies,
          match_confidence \in ProbeAdjustConfidence :
          arg = [result |-> ProbeResult(overall, functional, structural),
                 strategy |-> strategy,
                 match_confidence |-> match_confidence]

NextAdjust == CallApplyStrategyAdjustments

SpecAdjust == InitAdjust /\ [][NextAdjust]_vars

\* every field that EvaluationResult validates lies in [0, 1]
InUnitRange(result) ==
    \A k \in 1..Len(ScoreFields) :
        0 <= result[ScoreFields[k]] /\ result[ScoreFields[k]] <= ONE

\* C28: after the tier adjustment, which is not validated again, every
\* bounded score field of the per-file result still lies in [0, 1], for any
\* tier and any match confidence in [0, 1].
C28_AdjustedScoresStayInRange ==
    (/\ pc = "adjusted"
     /\ InUnitRange(arg.result)
     /\ 0 <= arg.match_confidence /\ arg.match_confidence <= ONE)
        => InUnitRange(ret)

\* the functional tier has halved an overall_similarity and a
\* functional_equivalence of 1.0
C28_Witness ==
    /\ pc = "adjusted"
    /\ arg.strategy = "functional"
    /\ arg.match_confidence = (ONE * 5) \div 10
    /\ arg.result.overall_similarity = ONE
    /\ arg.result.functional_equivalence = ONE
    /\ ret.overall_similarity = (ONE * 5) \div 10
    /\ ret.functional_equivalence = (ONE * 5) \div 10

(***************************************************************************)
(* Range of the aggregated overall score (SpecApp)                         *)
(***************************************************************************)

\* the adjusted overall_similarity of the file pairs that were evaluated
EvaluatedOveralls ==
    {DictGet(loc.file_results, loc.calls[i].golden_file).overall_similarity :
        i \in PairsEvaluated}

ExportNames == {"Button", "Card", "useTheme"}

\* the lists _extract_exports may return (a name can occur twice)
ExportLists == SeqsUpTo(ExportNames, MaxExports)

\* a FileAnalysis with the given exports and nothing else to compare: no
\* component name and no dependencies
ExportingFile(name, exports) ==
    Analysis(name, "react_component", None, exports, <<>>, {}, 2, <<"a", "b">>)

\* self._calculate_signature_similarity(golden_analysis, generated_analysis)
CallCalculateSignatureSimilarity ==
    /\ pc = "signature_similarity"
    /\ ret' = CalculateSignatureSimilarity(arg.golden, arg.generated)
    /\ pc' = "signature_done"
    /\ UNCHANGED <<golden, generated, matches, used, raised, arg, loc>>

InitSignature ==
    /\ pc = "signature_similarity"
    /\ golden = <<>>
    /\ generated = <<>>
    /\ matches = EmptyMap
    /\ used = {}
    /\ raised = "none"
    /\ loc = NoValue
    /\ ret = NoValue
    /\ \E golden_exports \in ExportLists, generated_exports \in ExportLists :
          arg = [golden |-> ExportingFile("Golden.tsx", golden_exports),
                 generated |-> ExportingFile("Generated.tsx", generated_exports)]

NextSignature == CallCalculateSignatureSimilarity

SpecSignature == InitSignature /\ [][NextSignature]_vars

\* the part of the returned score that the export term contributes: the two
\* files have the same type (0.2) and nothing else in common
ExportShare == ret - (ONE * 2) \div 10

CommonExports ==
    SeqToSet(arg.golden.exports) \cap SeqToSet(arg.generated.exports)

BothExport == arg.golden.exports # <<>> /\ arg.generated.exports # <<>>

\* C25: the export term of the signature score is the number of common
\* exports divided by the golden file's export count, weighted 0.3, whenever
\* both export collections are non-empty.
C25_ExportTermOverGoldenCount ==
    (pc = "signature_done" /\ BothExport) =>
        ExportShare * 10 * Len(arg.golden.exports)
            = ONE * 3 * Cardinality(CommonExports)

\* C25 (amended): the export term is the number of distinct common exports
\* divided by the larger of the two export list lengths, weighted 0.3,
\* whenever both export lists are non-empty, and 0 otherwise.
C25_ExportTermOverLargerCount ==
    pc = "signature_done" =>
        IF BothExport
        THEN ExportShare * 10 * MaxOf(Len(arg.golden.exports),
                                      Len(arg.generated.exports))
                = ONE * 3 * Cardinality(CommonExports)
        ELSE ExportShare = 0

\* the golden file exports one name and the generated file that name and
\* another: the term is 0.15, not 0.3
C25_Witness ==
    /\ pc = "signature_done"
    /\ arg.golden.exports = <<"Button">>
    /\ arg.generated.exports = <<"Button", "Card">>
    /\ ExportShare = (ONE * 15) \div 100

(***************************************************************************)
(* universal_evaluator.py: evaluate_batch over model output paths, each    *)
(* evaluated by evaluate() as a single file (SpecBatchFiles)               *)
(***************************************************************************)

\* evaluate(golden_path, generated_path, evaluation_type) as one call; inner
\* is the outcome of the evaluation of the code once both paths are parsed
Evaluate(golden_path, generated_path, evaluation_type, inner) ==
    LET determined == DetermineEvaluationType(golden_path, generated_path,
                                              evaluation_type)
        outcome == IF determined = "file"
                   THEN EvaluateSingleFile(golden_path, generated_path, inner)
                   ELSE IF determined = "app"
                   THEN EvaluateApplications(golden_path, generated_path, inner)
                   ELSE Raises("EvaluationError")
    IN Handle(outcome, determined)

\* what is found at a model's output path, and at the golden path
ProbeOutputPath == {"file", "missing", "missing_unsupported"}
ProbeGoldenPath == {"file", "missing"}

\* model_outputs as a dict of model names to output paths
ModelOutputsOf(k) ==
    {[i \in 1..k |-> <<ModelName(i), paths[i]>>] : paths \in [1..k -> ProbeOutputPath]}

\* evaluate_batch: the empty-input return, else _evaluate_all_models starts
\* with results = {} over model_dict = model_outputs
BatchFilesBegin ==
    /\ pc = "evaluate_batch_files"
    /\ IF arg.model_outputs = <<>>
       THEN /\ ret' = CreateBatchResult(<<>>)
            /\ pc' = "batch_done"
            /\ UNCHANGED loc
       ELSE /\ loc' = [model_dict |-> arg.model_outputs, i |-> 1,
                       results |-> <<>>, calls |-> <<>>]
            /\ pc' = "batch_loop"
            /\ UNCHANGED ret
    /\ UNCHANGED <<golden, generated, matches, used, raised, arg>>

\* one iteration of `for model_name, output_path in model_dict.items()`:
\* evaluate() runs on the output path and its result or exception is handled
BatchFilesIterate ==
    /\ pc = "batch_loop"
    /\ loc.i <= Len(loc.model_dict)
    /\ \E inner \in InnerOutcomes :
          LET model_name == loc.model_dict[loc.i][1]
              output_path == loc.model_dict[loc.i][2]
              evaluated == Evaluate(arg.golden_path, output_path,
                                    arg.evaluation_type, inner)
              outcome == IF evaluated.kind = "result"
                         THEN [kind |-> "result", result |-> evaluated.value]
                         ELSE [kind |-> "raise"]
          IN loc' = [loc EXCEPT
                       !.i = @ + 1,
                       !.results = BatchStep(@, model_name, outcome),
                       !.calls = Append(@, <<model_name, outcome, output_path>>)]
    /\ UNCHANGED <<pc, golden, generated, matches, used, raised, arg, ret>>

InitBatchFiles ==
    /\ pc = "evaluate_batch_files"
    /\ golden = <<>>
    /\ generated = <<>>
    /\ matches = EmptyMap
    /\ used = {}
    /\ raised = "none"
    /\ loc = NoValue
    /\ ret = NoValue
    /\ \E golden_path \in ProbeGoldenPath, evaluation_type \in {"auto", "file"},
          k \in 0..MaxModels :
          \E model_outputs \in ModelOutputsOf(k) :
             arg = [golden_path |-> golden_path,
                    model_outputs |-> model_outputs,
                    evaluation_type |-> evaluation_type]

NextBatchFiles ==
    \/ BatchFilesBegin
    \/ BatchFilesIterate
    \/ BatchReturn

SpecBatchFiles == InitBatchFiles /\ [][NextBatchFiles]_vars

\* the calls of evaluate() on an output path of the given kinds
CallsOn(kinds) == {i \in 1..Len(loc.calls) : loc.calls[i][3] \in kinds}

\* the model of call i is in model_scores and in the rankings with 0.0 and
\* is one of the scores the statistics are computed from
ScoredZero(i) ==
    LET scores == ModelScores(ret)
        model_name == loc.calls[i][1]
    IN /\ model_name \in DictKeys(scores)
       /\ DictGet(scores, model_name) = 0
       /\ model_name \in DictKeys(ret.rankings)
       /\ DictGet(ret.rankings, model_name) = 0
       /\ ret.summary_statistics.mean.den = Len(scores)
       /\ ret.summary_statistics.min = 0

====
